---- MODULE Spec2Model ----
(***************************************************************************)
(* Snapshot capture / diff / restore of gemctl-go                          *)
(* (internal/client/snapshot.go).  The remote platform is the variable     *)
(* live; RestoreEngineSnapshot runs as a process whose position is pc and  *)
(* whose external calls are single steps that succeed or fail.             *)
(***************************************************************************)
EXTENDS Integers, Sequences, FiniteSets, TLC

VARIABLES
    snapshot,        \* *EngineSnapshot handed to the operation (pointer)
    other,           \* second snapshot of a snapshot-vs-snapshot diff
    opts,            \* SnapshotRestoreOptions
    live,            \* the remote platform: engine (or none) and its agents
    nextId,          \* how many agent names the platform has assigned
    pc,              \* position of RestoreEngineSnapshot
    existingEngine,  \* local of RestoreEngineSnapshot (pointer)
    existingAgents,  \* local of RestoreEngineSnapshot
    currentDiff,     \* local of RestoreEngineSnapshot, the diff it returns
    result,          \* local of RestoreEngineSnapshot, the result it returns
    err,             \* the error it returns ("" is nil)
    calls,           \* external calls issued so far, in order
    desiredLeft,     \* keys of desiredMap the first loop has not visited
    currentLeft,     \* keys of currentMap the second loop has not visited
    changes,         \* local of syncAgentsWithSnapshot
    engineDiff,      \* what DiffSnapshotWithEngine returned (pointer)
    diffAB,          \* DiffSnapshots(snapshot, other) (pointer)
    diffBA,          \* DiffSnapshots(other, snapshot) (pointer)
    diffAA,          \* DiffSnapshots(snapshot, snapshot) (pointer)
    diffTwice,       \* two evaluations of DiffSnapshots(snapshot, other) (pointer)
    cli,             \* the restore command: its flags and how far it has come
    loaded,          \* LoadEngineSnapshot of the marshalled snapshot (pointer)
    capture          \* CreateEngineSnapshot: the objects in memory and its return

vars == <<snapshot, other, opts, live, nextId, pc, existingEngine, existingAgents,
          currentDiff, result, err, calls, desiredLeft, currentLeft, changes,
          engineDiff, diffAB, diffBA, diffAA, diffTwice, cli, loaded, capture>>

(***************************************************************************)
(* Bounds of the model.                                                    *)
(***************************************************************************)
MaxAgents == 2

(***************************************************************************)
(* Go values.  A pointer is <<>> (nil) or <<v>>.  A map is a record with   *)
(* its nil-ness and its entries; reading a missing key gives the zero      *)
(* value.                                                                  *)
(***************************************************************************)
Nil == <<>>

Ptr(v) == <<v>>

NilMap == [isnil |-> TRUE, kv |-> <<>>]

MakeMap(f) == [isnil |-> FALSE, kv |-> f]

MapKeys(m) == DOMAIN m.kv

MapLen(m) == Cardinality(DOMAIN m.kv)

MapGet(m, k) == IF k \in DOMAIN m.kv THEN m.kv[k] ELSE ""

RECURSIVE ConcatAll(_)
ConcatAll(ss) ==
    IF ss = <<>> THEN <<>> ELSE Head(ss) \o ConcatAll(Tail(ss))

\* every order in which a Go range statement may visit the key set S
Orders(S) ==
    {s \in [1..Cardinality(S) -> S] : \A i, j \in 1..Cardinality(S) : s[i] = s[j] => i = j}

Range(seq) == {seq[i] : i \in DOMAIN seq}

SeqsUpTo(S, n) == UNION {[1..k -> S] : k \in 0..n}

\* strings.ToLower on the strings of the model
ToLower(s) ==
    CASE s = "Bot" -> "bot"
      [] s = "Helper" -> "helper"
      [] s = "L1" -> "l1"
      [] s = "Agents/3" -> "agents/3"
      [] OTHER -> s

\* sort.Strings on the feature names of the model
FeatureNames == <<"agent-gallery", "model-selector", "prompt-gallery">>

SortStrings(S) == SelectSeq(FeatureNames, LAMBDA k : k \in S)

\* fmt.Sprintf("%v", v) of a common-config value: the type is not printed
Sprintf(v) == v.v

(***************************************************************************)
(* agentSnapshotKey and the differ.                                        *)
(***************************************************************************)
\* the key taken without strings.ToLower
agentSnapshotKeyCaseSensitive(agent) ==
    IF agent = Nil THEN ""
    ELSE IF agent[1].DialogflowAgentDefinition # Nil
            /\ agent[1].DialogflowAgentDefinition[1] # ""
         THEN agent[1].DialogflowAgentDefinition[1]
    ELSE IF agent[1].DisplayName # "" THEN agent[1].DisplayName
    ELSE agent[1].Name

\* the display name taken before the link
agentSnapshotKeyDisplayNameFirst(agent) ==
    IF agent = Nil THEN ""
    ELSE IF agent[1].DisplayName # "" THEN ToLower(agent[1].DisplayName)
    ELSE IF agent[1].DialogflowAgentDefinition # Nil
            /\ agent[1].DialogflowAgentDefinition[1] # ""
         THEN ToLower(agent[1].DialogflowAgentDefinition[1])
    ELSE ToLower(agent[1].Name)

agentSnapshotKey(agent) ==
    IF agent = Nil THEN ""
    ELSE IF agent[1].DialogflowAgentDefinition # Nil
            /\ agent[1].DialogflowAgentDefinition[1] # ""
         THEN ToLower(agent[1].DialogflowAgentDefinition[1])
    ELSE IF agent[1].DisplayName # "" THEN ToLower(agent[1].DisplayName)
    ELSE ToLower(agent[1].Name)

\* the loop  for _, agent := range list { m[agentSnapshotKey(agent)] = agent }
AgentMap(list) ==
    [k \in {agentSnapshotKey(list[i]) : i \in DOMAIN list} |->
        list[CHOOSE i \in DOMAIN list :
                /\ agentSnapshotKey(list[i]) = k
                /\ \A j \in DOMAIN list : agentSnapshotKey(list[j]) = k => j <= i]]

IconURI(a) == IF a.Icon = Nil THEN "" ELSE a.Icon[1].URI

IconContent(a) == IF a.Icon = Nil THEN "" ELSE a.Icon[1].Content

DialogflowOf(a) ==
    IF a.DialogflowAgentDefinition = Nil THEN "" ELSE a.DialogflowAgentDefinition[1]

\* the mask with reasoningEngine and the link taken whenever they differ
diffAgentsFieldsUnguarded(current, desired) ==
    IF current = Nil \/ desired = Nil THEN <<>>
    ELSE LET c == current[1]
             d == desired[1]
         IN  (IF c.DisplayName # d.DisplayName THEN <<"displayName">> ELSE <<>>)
          \o (IF c.Description # d.Description THEN <<"description">> ELSE <<>>)
          \o (IF c.ReasoningEngine # d.ReasoningEngine
              THEN <<"reasoningEngine">> ELSE <<>>)
          \o (IF DialogflowOf(c) # DialogflowOf(d)
              THEN <<"dialogflowAgentDefinition.dialogflowAgent">> ELSE <<>>)
          \o (IF IconURI(c) # IconURI(d) \/ IconContent(c) # IconContent(d)
              THEN <<"icon">> ELSE <<>>)

\* the update mask; needsUpdate is Len(mask) > 0
diffAgentsFields(current, desired) ==
    IF current = Nil \/ desired = Nil THEN <<>>
    ELSE LET c == current[1]
             d == desired[1]
         IN  (IF c.DisplayName # d.DisplayName THEN <<"displayName">> ELSE <<>>)
          \o (IF c.Description # d.Description THEN <<"description">> ELSE <<>>)
          \o (IF c.ReasoningEngine # d.ReasoningEngine /\ d.ReasoningEngine # ""
              THEN <<"reasoningEngine">> ELSE <<>>)
          \o (IF DialogflowOf(c) # DialogflowOf(d) /\ DialogflowOf(d) # ""
              THEN <<"dialogflowAgentDefinition.dialogflowAgent">> ELSE <<>>)
          \o (IF IconURI(c) # IconURI(d) \/ IconContent(c) # IconContent(d)
              THEN <<"icon">> ELSE <<>>)

AgentDiff(key, kind, old, new) ==
    [Key |-> key, ChangeType |-> kind, Old |-> old, New |-> new]

\* the two loops run over the lists instead of the maps
diffAgentsPerEntry(current, desired, ordD, ordC) ==
    LET currentMap == AgentMap(current)
        desiredMap == AgentMap(desired)
        first == [i \in DOMAIN desired |->
                    LET key == agentSnapshotKey(desired[i]) IN
                    IF key \in DOMAIN currentMap
                    THEN IF Len(diffAgentsFields(currentMap[key], desired[i])) > 0
                         THEN <<AgentDiff(key, "updated", currentMap[key], desired[i])>>
                         ELSE <<>>
                    ELSE <<AgentDiff(key, "added", Nil, desired[i])>>]
        second == [i \in DOMAIN current |->
                    LET key == agentSnapshotKey(current[i]) IN
                    IF key \notin DOMAIN desiredMap
                    THEN <<AgentDiff(key, "removed", current[i], Nil)>>
                    ELSE <<>>]
    IN  ConcatAll(first) \o ConcatAll(second)

\* ordD, ordC: the orders in which the two range loops visit desiredMap, currentMap
diffAgents(current, desired, ordD, ordC) ==
    LET currentMap == AgentMap(current)
        desiredMap == AgentMap(desired)
        first == [i \in DOMAIN ordD |->
                    LET key == ordD[i] IN
                    IF key \in DOMAIN currentMap
                    THEN IF Len(diffAgentsFields(currentMap[key], desiredMap[key])) > 0
                         THEN <<AgentDiff(key, "updated", currentMap[key], desiredMap[key])>>
                         ELSE <<>>
                    ELSE <<AgentDiff(key, "added", Nil, desiredMap[key])>>]
        second == [i \in DOMAIN ordC |->
                    LET key == ordC[i] IN
                    IF key \notin DOMAIN desiredMap
                    THEN <<AgentDiff(key, "removed", currentMap[key], Nil)>>
                    ELSE <<>>]
    IN  ConcatAll(first) \o ConcatAll(second)

FieldDiff(field, old, new) == [Field |-> field, Old |-> old, New |-> new]

diffMetadata(a, b) ==
       (IF a.DisplayName # b.DisplayName
        THEN <<FieldDiff("displayName", a.DisplayName, b.DisplayName)>> ELSE <<>>)
    \o (IF a.Description # b.Description
        THEN <<FieldDiff("description", a.Description, b.Description)>> ELSE <<>>)
    \o (IF a.Notes # b.Notes
        THEN <<FieldDiff("notes", a.Notes, b.Notes)>> ELSE <<>>)

stringSlicesEqual(a, b) ==
    /\ Len(a) = Len(b)
    /\ \A i \in DOMAIN a : a[i] = b[i]

\* mapsEqual without its length test
mapsEqualNoLen(a, b) ==
    \A k \in MapKeys(a) : k \in MapKeys(b) /\ Sprintf(a.kv[k]) = Sprintf(b.kv[k])

mapsEqual(a, b) ==
    /\ MapLen(a) = MapLen(b)
    /\ \A k \in MapKeys(a) : k \in MapKeys(b) /\ Sprintf(a.kv[k]) = Sprintf(b.kv[k])

\* compareSearchConfigs with the one-side-nil test first
compareSearchConfigsNilFirst(a, b) ==
    IF a = Nil \/ b = Nil THEN FALSE
    ELSE IF a[1].SearchTier # b[1].SearchTier THEN FALSE
    ELSE stringSlicesEqual(a[1].SearchAddOns, b[1].SearchAddOns)

compareSearchConfigs(a, b) ==
    IF a = Nil /\ b = Nil THEN TRUE
    ELSE IF a = Nil \/ b = Nil THEN FALSE
    ELSE IF a[1].SearchTier # b[1].SearchTier THEN FALSE
    ELSE stringSlicesEqual(a[1].SearchAddOns, b[1].SearchAddOns)

diffEngineConfig(a, b) ==
       (IF a.DisplayName # b.DisplayName
        THEN <<FieldDiff("displayName", a.DisplayName, b.DisplayName)>> ELSE <<>>)
    \o (IF a.SolutionType # b.SolutionType
        THEN <<FieldDiff("solutionType", a.SolutionType, b.SolutionType)>> ELSE <<>>)
    \o (IF a.IndustryVertical # b.IndustryVertical
        THEN <<FieldDiff("industryVertical", a.IndustryVertical, b.IndustryVertical)>>
        ELSE <<>>)
    \o (IF a.AppType # b.AppType
        THEN <<FieldDiff("appType", a.AppType, b.AppType)>> ELSE <<>>)
    \o (IF ~stringSlicesEqual(a.DataStoreIds, b.DataStoreIds)
        THEN <<FieldDiff("dataStoreIds", a.DataStoreIds, b.DataStoreIds)>> ELSE <<>>)
    \o (IF ~mapsEqual(a.CommonConfig, b.CommonConfig)
        THEN <<FieldDiff("commonConfig", a.CommonConfig, b.CommonConfig)>> ELSE <<>>)
    \o (IF ~compareSearchConfigs(a.SearchConfig, b.SearchConfig)
        THEN <<FieldDiff("searchConfig", a.SearchConfig, b.SearchConfig)>> ELSE <<>>)

FeatureDiff(key, old, new) == [Feature |-> key, Old |-> old, New |-> new]

\* the loop over the keys of a alone
diffFeaturesKeysOfFirst(a, b) ==
    LET keys == SortStrings(MapKeys(a))
        each == [i \in DOMAIN keys |->
                    IF MapGet(a, keys[i]) # MapGet(b, keys[i])
                    THEN <<FeatureDiff(keys[i], MapGet(a, keys[i]), MapGet(b, keys[i]))>>
                    ELSE <<>>]
    IN  ConcatAll(each)

diffFeatures(a, b) ==
    LET keys == SortStrings(MapKeys(a) \cup MapKeys(b))
        each == [i \in DOMAIN keys |->
                    IF MapGet(a, keys[i]) # MapGet(b, keys[i])
                    THEN <<FeatureDiff(keys[i], MapGet(a, keys[i]), MapGet(b, keys[i]))>>
                    ELSE <<>>]
    IN  ConcatAll(each)

EmptyDiff ==
    [MetadataChanges |-> <<>>, EngineChanges |-> <<>>,
     FeatureChanges |-> <<>>, AgentChanges |-> <<>>]

\* ordB, ordA: the visiting orders of diffAgents' desiredMap (b.Agents) and
\* currentMap (a.Agents)
DiffSnapshots(a, b, ordB, ordA) ==
    [MetadataChanges |-> diffMetadata(a.Metadata, b.Metadata),
     EngineChanges   |-> diffEngineConfig(a.Engine, b.Engine),
     FeatureChanges  |-> diffFeatures(a.Engine.Features, b.Engine.Features),
     AgentChanges    |-> diffAgents(a.Agents, b.Agents, ordB, ordA)]

IsEmpty(d) ==
    /\ Len(d.MetadataChanges) = 0
    /\ Len(d.EngineChanges) = 0
    /\ Len(d.FeatureChanges) = 0
    /\ Len(d.AgentChanges) = 0

AgentKeys(list) == DOMAIN AgentMap(list)

(***************************************************************************)
(* Inputs.  A snapshot differs from BaseSnapshot in one component: its     *)
(* engine configuration in one field, its metadata in one field, or its    *)
(* agent list, any list of up to MaxAgents agents of DesiredAgents.        *)
(***************************************************************************)
Agent(name, displayName, description, icon, dialogflow, reasoningEngine) ==
    [Name |-> name, DisplayName |-> displayName, Description |-> description,
     Icon |-> icon, DialogflowAgentDefinition |-> dialogflow,
     ReasoningEngine |-> reasoningEngine]

AgentIcon(uri, content) == Ptr([URI |-> uri, Content |-> content])

DesiredAgents ==
    { Nil,
      Ptr(Agent("", "Bot", "d", Nil, Nil, "")),
      Ptr(Agent("", "Bot", "d", Nil, Nil, "re1")),
      Ptr(Agent("", "Helper", "h", AgentIcon("u1", ""), Ptr("L1"), "re1")),
      Ptr(Agent("", "", "", Nil, Ptr(""), "")) }

LiveAgents ==
    { Ptr(Agent("agents/1", "bot", "d", Nil, Nil, "")),
      Ptr(Agent("agents/2", "Helper", "h", AgentIcon("u1", "c2"), Ptr("l1"), "re1")),
      Ptr(Agent("Agents/3", "Bot", "d", Nil, Nil, "re1")) }

StringValue(s) == [t |-> "string", v |-> s]

NumberValue(s) == [t |-> "number", v |-> s]

SearchEngineConfig(tier, addOns) == Ptr([SearchTier |-> tier, SearchAddOns |-> addOns])

BaseEngineConfig ==
    [DisplayName      |-> "eng",
     SolutionType     |-> "SOLUTION_TYPE_SEARCH",
     IndustryVertical |-> "GENERIC",
     AppType          |-> "APP_TYPE_INTRANET",
     DataStoreIds     |-> <<"ds1", "ds2">>,
     CommonConfig     |-> MakeMap("companyName" :> StringValue("acme")),
     Features         |-> MakeMap("agent-gallery" :> "ON"),
     SearchConfig     |-> SearchEngineConfig("SEARCH_TIER_STANDARD", <<"LLM">>)]

EngineConfigs ==
    {BaseEngineConfig}
    \cup {[BaseEngineConfig EXCEPT !.DisplayName = x] : x \in {"", "eng2"}}
    \cup {[BaseEngineConfig EXCEPT !.SolutionType = x] : x \in {"SOLUTION_TYPE_CHAT"}}
    \cup {[BaseEngineConfig EXCEPT !.IndustryVertical = x] : x \in {"", "MEDIA"}}
    \cup {[BaseEngineConfig EXCEPT !.AppType = x] : x \in {"", "APP_TYPE_OTHER"}}
    \cup {[BaseEngineConfig EXCEPT !.DataStoreIds = x] : x \in {<<>>, <<"ds2", "ds1">>}}
    \cup {[BaseEngineConfig EXCEPT !.CommonConfig = x] :
            x \in {NilMap, MakeMap("companyName" :> StringValue("1")),
                   MakeMap("companyName" :> NumberValue("1"))}}
    \cup {[BaseEngineConfig EXCEPT !.Features = x] :
            x \in {NilMap, MakeMap(<<>>),
                   MakeMap("agent-gallery" :> "OFF" @@ "prompt-gallery" :> "ON"),
                   MakeMap("agent-gallery" :> "ON" @@ "prompt-gallery" :> "")}}
    \cup {[BaseEngineConfig EXCEPT !.SearchConfig = x] :
            x \in {Nil, SearchEngineConfig("SEARCH_TIER_ENTERPRISE", <<"LLM">>),
                   SearchEngineConfig("SEARCH_TIER_STANDARD", <<>>)}}

\* a target whose configuration and features have drifted from the base
DriftedEngineConfig ==
    [BaseEngineConfig EXCEPT
        !.DisplayName = "eng2",
        !.Features = MakeMap("agent-gallery" :> "OFF" @@ "model-selector" :> "ON")]

snapshotVersion == "v1"

TargetEngineName == "engines/e1"

BaseMetadata ==
    [Version |-> snapshotVersion, OriginalEngineName |-> "engines/e0",
     OriginalEngineID |-> "e0", DisplayName |-> "eng", Description |-> "",
     Notes |-> ""]

Metadatas ==
    {BaseMetadata}
    \cup {[BaseMetadata EXCEPT !.DisplayName = "eng0"]}
    \cup {[BaseMetadata EXCEPT !.Description = "nightly"]}
    \cup {[BaseMetadata EXCEPT !.Notes = "before upgrade"]}

EngineSnapshot(metadata, engine, agents) ==
    [Metadata |-> metadata, Engine |-> engine, Agents |-> agents]

BaseSnapshot == EngineSnapshot(BaseMetadata, BaseEngineConfig, <<>>)

\* agent lists of a snapshot file: no entry repeated (two entries may still
\* share a key)
DesiredAgentLists ==
    {l \in SeqsUpTo(DesiredAgents, MaxAgents) :
        \A i, j \in DOMAIN l : l[i] = l[j] => i = j}

Snapshots ==
         {EngineSnapshot(BaseMetadata, e, <<>>) : e \in EngineConfigs}
    \cup {EngineSnapshot(m, BaseEngineConfig, <<>>) : m \in Metadatas}
    \cup {EngineSnapshot(BaseMetadata, BaseEngineConfig, l) : l \in DesiredAgentLists}

\* what other snapshot files hold: captures of live engines as well
\* agents that have neither link nor display name: their key is their Name
NameKeyedAgents ==
    { Ptr(Agent("Agents/3", "", "d", Nil, Nil, "")),
      Ptr(Agent("agents/3", "", "d", Nil, Nil, "")) }

NameKeyedLists ==
    {<<x>> : x \in NameKeyedAgents}
    \cup {l \in [1..2 -> NameKeyedAgents] : l[1] # l[2]}

OtherSnapshots ==
    Snapshots
    \cup {EngineSnapshot(BaseMetadata, BaseEngineConfig, l) :
            l \in SeqsUpTo(LiveAgents, MaxAgents)}
    \cup {EngineSnapshot(BaseMetadata, BaseEngineConfig, l) : l \in NameKeyedLists}

(***************************************************************************)
(* The remote platform and the external calls.                             *)
(***************************************************************************)
ReadOps == {"GetEngineDetails", "ListAgents"}

WriteOps ==
    {"CreateEngine", "PatchEngine", "UpdateEngineFeatures",
     "CreateAgent", "UpdateAgent", "DeleteAgent"}

Call(op, outcome, target, mask) ==
    [op |-> op, outcome |-> outcome, target |-> target, mask |-> mask]

Outcome(ok) == IF ok THEN "ok" ELSE "error"

Engine(name, cfg) ==
    [Name               |-> name,
     DisplayName        |-> cfg.DisplayName,
     SolutionType       |-> cfg.SolutionType,
     IndustryVertical   |-> cfg.IndustryVertical,
     AppType            |-> cfg.AppType,
     DataStoreIds       |-> cfg.DataStoreIds,
     CommonConfig       |-> cfg.CommonConfig,
     Features           |-> cfg.Features,
     SearchEngineConfig |-> cfg.SearchConfig]

\* lists of distinct agents: the platform names every agent it registers
LiveAgentLists ==
    {l \in SeqsUpTo(LiveAgents, MaxAgents) :
        \A i, j \in DOMAIN l : l[i] = l[j] => i = j}

NoLive == [exists |-> FALSE, engine |-> Nil, agents |-> <<>>]

Lives ==
    {NoLive}
    \cup {[exists |-> TRUE, engine |-> Ptr(Engine(TargetEngineName, e)), agents |-> <<>>] :
            e \in EngineConfigs}
    \cup {[exists |-> TRUE, engine |-> Ptr(Engine(TargetEngineName, e)), agents |-> l] :
            e \in {BaseEngineConfig, DriftedEngineConfig}, l \in LiveAgentLists}

\* names the platform gives to the agents it creates
NewAgentNames == <<"agents/n1", "agents/n2", "agents/n3", "agents/n4">>

extractResourceID(resourceName) ==
    CASE resourceName = "engines/e1" -> "e1"
      [] resourceName = "engines/e0" -> "e0"
      [] OTHER -> resourceName

cloneAgents(src) == SelectSeq(src, LAMBDA agent : agent # Nil)

cloneStringMap(src) == IF src.isnil THEN NilMap ELSE MakeMap(src.kv)

cloneStringInterfaceMap(src) == IF src.isnil THEN NilMap ELSE MakeMap(src.kv)

\* the features of the engine that was read left out
existingEngineFeaturesNone(engine) == MakeMap(<<>>)

existingEngineFeatures(engine) ==
    IF engine = Nil THEN MakeMap(<<>>) ELSE cloneStringMap(engine[1].Features)

\* the snapshot RestoreEngineSnapshot and DiffSnapshotWithEngine build of the
\* live engine
CurrentSnapshot(engine, agents) ==
    EngineSnapshot(
        [Version |-> snapshotVersion, OriginalEngineName |-> engine.Name,
         OriginalEngineID |-> extractResourceID(engine.Name),
         DisplayName |-> engine.DisplayName, Description |-> "", Notes |-> ""],
        [DisplayName      |-> engine.DisplayName,
         SolutionType     |-> engine.SolutionType,
         IndustryVertical |-> engine.IndustryVertical,
         AppType          |-> engine.AppType,
         DataStoreIds     |-> engine.DataStoreIds,
         CommonConfig     |-> cloneStringInterfaceMap(engine.CommonConfig),
         Features         |-> cloneStringMap(engine.Features),
         SearchConfig     |-> engine.SearchEngineConfig],
        cloneAgents(agents))

\* the engine createEngineFromSnapshot sends, as the platform stores it
createEngineFromSnapshot(engineName, cfg) ==
    [Name               |-> engineName,
     DisplayName        |-> cfg.DisplayName,
     SolutionType       |-> cfg.SolutionType,
     IndustryVertical   |-> cfg.IndustryVertical,
     AppType            |-> cfg.AppType,
     DataStoreIds       |-> cfg.DataStoreIds,
     CommonConfig       |->
        IF /\ "companyName" \in MapKeys(cfg.CommonConfig)
           /\ cfg.CommonConfig.kv["companyName"].t = "string"
           /\ cfg.CommonConfig.kv["companyName"].v # ""
        THEN MakeMap("companyName" :> cfg.CommonConfig.kv["companyName"])
        ELSE NilMap,
     Features           |-> cloneStringMap(cfg.Features),
     SearchEngineConfig |->
        IF cfg.SearchConfig # Nil
        THEN SearchEngineConfig(cfg.SearchConfig[1].SearchTier,
                                cfg.SearchConfig[1].SearchAddOns)
        ELSE Nil]

\* the update mask patchEngineFromSnapshot computes
patchEngineFromSnapshot(current, cfg) ==
       (IF cfg.DisplayName # "" /\ cfg.DisplayName # current.DisplayName
        THEN <<"displayName">> ELSE <<>>)
    \o (IF cfg.IndustryVertical # "" /\ cfg.IndustryVertical # current.IndustryVertical
        THEN <<"industryVertical">> ELSE <<>>)
    \o (IF cfg.AppType # "" /\ cfg.AppType # current.AppType
        THEN <<"appType">> ELSE <<>>)
    \o (IF ~stringSlicesEqual(cfg.DataStoreIds, current.DataStoreIds)
        THEN <<"dataStoreIds">> ELSE <<>>)
    \o (IF cfg.SearchConfig # Nil
        THEN LET currentTier == IF current.SearchEngineConfig # Nil
                                THEN current.SearchEngineConfig[1].SearchTier ELSE ""
                 currentAddOns == IF current.SearchEngineConfig # Nil
                                  THEN current.SearchEngineConfig[1].SearchAddOns
                                  ELSE <<>>
             IN  IF \/ cfg.SearchConfig[1].SearchTier # currentTier
                    \/ ~stringSlicesEqual(cfg.SearchConfig[1].SearchAddOns, currentAddOns)
                 THEN <<"searchEngineConfig">> ELSE <<>>
        ELSE <<>>)

\* the platform's engine after the patch call
PatchedEngine(engine, cfg, mask) ==
    [engine EXCEPT
        !.DisplayName = IF "displayName" \in Range(mask) THEN cfg.DisplayName ELSE @,
        !.IndustryVertical =
            IF "industryVertical" \in Range(mask) THEN cfg.IndustryVertical ELSE @,
        !.AppType = IF "appType" \in Range(mask) THEN cfg.AppType ELSE @,
        !.DataStoreIds = IF "dataStoreIds" \in Range(mask) THEN cfg.DataStoreIds ELSE @,
        !.SearchEngineConfig =
            IF "searchEngineConfig" \in Range(mask) THEN cfg.SearchConfig ELSE @]

\* the platform's feature map after UpdateEngineFeatures(engineName, desired)
UpdateEngineFeatures(current, desired) ==
    MakeMap([k \in MapKeys(current) \cup MapKeys(desired) |->
                IF k \in MapKeys(desired) THEN desired.kv[k] ELSE current.kv[k]])

\* the map handed to the call, written with the merged flags
DesiredMergedInPlace(current, desired) == UpdateEngineFeatures(current, desired)

\* the map handed to UpdateEngineFeatures, snapshot.Engine.Features itself,
\* as the call leaves it: the call reads it
DesiredAfterUpdate(current, desired) == desired

\* applyFeatureSnapshot issues the call unless the desired map is nil
applyFeatureSnapshot(desired) == ~desired.isnil

\* the payload createAgentFromSnapshot sends
AgentCreateInput(engineName, agent) ==
    [DisplayName |-> agent.DisplayName,
     Description |-> agent.Description,
     Icon |-> IF agent.Icon # Nil
              THEN AgentIcon(agent.Icon[1].URI, agent.Icon[1].Content) ELSE Nil,
     DialogflowAgentDefinition |->
        IF agent.DialogflowAgentDefinition # Nil
        THEN Ptr(agent.DialogflowAgentDefinition[1]) ELSE Nil,
     ReasoningEngine |->
        IF agent.ReasoningEngine # "" THEN agent.ReasoningEngine ELSE engineName]

\* createAgentFromSnapshot: "skip" (nil agent), "invalid" (definition without
\* a Dialogflow agent) or "call"
createAgentFromSnapshot(agent) ==
    IF agent = Nil THEN "skip"
    ELSE IF agent[1].DialogflowAgentDefinition # Nil
            /\ agent[1].DialogflowAgentDefinition[1] = ""
         THEN "invalid"
    ELSE "call"

\* the payload updateAgentFromSnapshot sends
AgentUpdateInput(desired) ==
    [DisplayName |-> desired.DisplayName,
     Description |-> desired.Description,
     Icon |-> IF desired.Icon # Nil
              THEN AgentIcon(desired.Icon[1].URI, desired.Icon[1].Content) ELSE Nil,
     DialogflowAgentDefinition |->
        IF desired.DialogflowAgentDefinition # Nil
        THEN Ptr(desired.DialogflowAgentDefinition[1]) ELSE Nil,
     ReasoningEngine |-> desired.ReasoningEngine]

\* the platform's agents after CreateAgent
CreateAgent(agents, name, input) ==
    Append(agents, Ptr(Agent(name, input.DisplayName, input.Description, input.Icon,
                             input.DialogflowAgentDefinition, input.ReasoningEngine)))

\* the platform's agents after UpdateAgent(agentName, input, updateMask)
UpdateAgent(agents, agentName, input, updateMask) ==
    [i \in DOMAIN agents |->
        IF agents[i][1].Name # agentName THEN agents[i]
        ELSE Ptr([agents[i][1] EXCEPT
            !.DisplayName =
                IF "displayName" \in Range(updateMask) THEN input.DisplayName ELSE @,
            !.Description =
                IF "description" \in Range(updateMask) THEN input.Description ELSE @,
            !.ReasoningEngine =
                IF "reasoningEngine" \in Range(updateMask)
                THEN input.ReasoningEngine ELSE @,
            !.DialogflowAgentDefinition =
                IF "dialogflowAgentDefinition.dialogflowAgent" \in Range(updateMask)
                THEN input.DialogflowAgentDefinition ELSE @,
            !.Icon = IF "icon" \in Range(updateMask) THEN input.Icon ELSE @])]

\* the platform's agents after DeleteAgent(agentName)
DeleteAgent(agents, agentName) ==
    SelectSeq(agents, LAMBDA agent : agent[1].Name # agentName)

(***************************************************************************)
(* RestoreEngineSnapshot.                                                  *)
(***************************************************************************)
\* the feature update moved before the engine step
ApplyOrderFeaturesFirst == <<"features", "engine", "agents">>

\* the apply steps, in the order of the function body
ApplyOrder == <<"engine", "features", "agents">>

StepAfter(step) ==
    IF step = "preview" THEN ApplyOrder[1]
    ELSE LET i == CHOOSE n \in DOMAIN ApplyOrder : ApplyOrder[n] = step
         IN  IF i = Len(ApplyOrder) THEN "done" ELSE ApplyOrder[i + 1]

\* an error that is dropped
AbortsNever(ok) == FALSE

\* if err != nil { return nil, ..., err }
AbortsOn(ok) == ~ok

\* the create option tested in the apply phase alone
MissingTargetFailsUnlessDryRun(o) == ~o.CreateIfMissing /\ ~o.DryRun

\* if !opts.CreateIfMissing { return ... "not found and create option disabled" }
MissingTargetFails(o) == ~o.CreateIfMissing

\* the dry-run return skipped when creation is allowed
ReturnsPreviewUnlessCreate(o) == o.DryRun /\ ~o.CreateIfMissing

\* if opts.DryRun { return nil, currentDiff, nil }
ReturnsPreview(o) == o.DryRun

\* the missing-target preview with diffAgents' arguments exchanged
MissingTargetDiffSwapped(snap, ordD) ==
    [MetadataChanges |-> <<>>,
     EngineChanges   |-> <<FieldDiff("engine", "missing", "will be created")>>,
     FeatureChanges  |-> diffFeatures(MakeMap(<<>>), snap.Engine.Features),
     AgentChanges    |-> diffAgents(snap.Agents, <<>>, <<>>, ordD)]

\* the preview when the target is missing
MissingTargetDiff(snap, ordD) ==
    [MetadataChanges |-> <<>>,
     EngineChanges   |-> <<FieldDiff("engine", "missing", "will be created")>>,
     FeatureChanges  |-> diffFeatures(MakeMap(<<>>), snap.Engine.Features),
     AgentChanges    |-> diffAgents(<<>>, snap.Agents, ordD, <<>>)]

\* the result with the patch flag set from the start
NewResultPatched ==
    [EngineName |-> opts.TargetEngineName, Created |-> FALSE, EnginePatched |-> TRUE,
     FeatureChanges |-> <<>>, AgentChanges |-> <<>>]

NewResult ==
    [EngineName |-> opts.TargetEngineName, Created |-> FALSE, EnginePatched |-> FALSE,
     FeatureChanges |-> <<>>, AgentChanges |-> <<>>]

callerVars ==
    <<other, opts, engineDiff, diffAB, diffBA, diffAA, diffTwice, cli, loaded, capture>>

otherVars == <<snapshot, callerVars>>

syncVars == <<desiredLeft, currentLeft, changes>>

\* the text of the error an external call failed with: the transport words
\* it, not this package
TransportError == "googleapi: Error 503: backend unavailable"

\* fmt.Errorf("<context>: %w", cause)
Wrap(context, cause) == context \o ": " \o cause

\* return nil, <diff>, err
Fail(message) ==
    /\ pc' = "done"
    /\ result' = Nil
    /\ err' = message

\* go on with the step after `step`, or return the result after the last one
Advance(step) ==
    /\ pc' = StepAfter(step)
    /\ IF StepAfter(step) = "agents"
       THEN /\ desiredLeft' = AgentKeys(snapshot[1].Agents)
            /\ currentLeft' = AgentKeys(existingAgents) \ AgentKeys(snapshot[1].Agents)
            /\ changes' = <<>>
       ELSE UNCHANGED syncVars

\* the argument checks without the one on the target name
ValidCallSnapshotOnly == snapshot # Nil

ValidCall == snapshot # Nil /\ opts.TargetEngineName # ""

\* the two argument checks
RestoreInvalid ==
    /\ pc = "idle"
    /\ ~ValidCall
    /\ Fail(IF snapshot = Nil THEN "snapshot is nil"
            ELSE "target engine name is required")
    /\ UNCHANGED <<otherVars, live, nextId, existingEngine, existingAgents,
                   currentDiff, calls, syncVars>>

\* GetEngineDetails: the engine, NotFound, or another error
GetEngineDetails ==
    /\ pc = "idle"
    /\ ValidCall
    /\ \/ /\ live.exists
          /\ calls' = Append(calls, Call("GetEngineDetails", "ok",
                                         opts.TargetEngineName, <<>>))
          /\ existingEngine' = live.engine
          /\ pc' = "listAgents"
          /\ UNCHANGED <<result, err>>
       \/ /\ ~live.exists
          /\ calls' = Append(calls, Call("GetEngineDetails", "notfound",
                                         opts.TargetEngineName, <<>>))
          /\ UNCHANGED existingEngine
          /\ IF MissingTargetFails(opts)
             THEN Fail("engine " \o opts.TargetEngineName \o " not found and create option disabled")
             ELSE pc' = "preview" /\ UNCHANGED <<result, err>>
       \/ /\ calls' = Append(calls, Call("GetEngineDetails", "error",
                                         opts.TargetEngineName, <<>>))
          /\ UNCHANGED existingEngine
          /\ Fail("failed to get target engine")
    /\ UNCHANGED <<otherVars, live, nextId, existingAgents, currentDiff, syncVars>>

ListAgents ==
    /\ pc = "listAgents"
    /\ \E ok \in BOOLEAN :
        /\ calls' = Append(calls, Call("ListAgents", Outcome(ok),
                                       opts.TargetEngineName, <<>>))
        /\ IF ok
           THEN /\ existingAgents' = live.agents
                /\ pc' = "preview"
                /\ UNCHANGED <<result, err>>
           ELSE /\ UNCHANGED existingAgents
                /\ Fail("failed to list agents for target engine")
    /\ UNCHANGED <<otherVars, live, nextId, existingEngine, currentDiff, syncVars>>

\* the preview diff, and the return of a dry run
Preview ==
    /\ pc = "preview"
    /\ IF existingEngine # Nil
       THEN \E ordB \in Orders(AgentKeys(cloneAgents(existingAgents))),
               ordA \in Orders(AgentKeys(snapshot[1].Agents)) :
                currentDiff' = DiffSnapshots(snapshot[1],
                                    CurrentSnapshot(existingEngine[1], existingAgents),
                                    ordB, ordA)
       ELSE \E ordD \in Orders(AgentKeys(snapshot[1].Agents)) :
                currentDiff' = MissingTargetDiff(snapshot[1], ordD)
    /\ IF ReturnsPreview(opts)
       THEN /\ pc' = "done"
            /\ UNCHANGED <<result, syncVars>>
       ELSE /\ result' = Ptr(NewResult)
            /\ Advance("preview")
    /\ UNCHANGED <<otherVars, live, nextId, existingEngine, existingAgents, err, calls>>

\* target missing: createEngineFromSnapshot
CreateEngine ==
    /\ pc = "engine"
    /\ existingEngine = Nil
    /\ IF ~opts.CreateIfMissing
       THEN /\ Fail("engine " \o opts.TargetEngineName \o " not found")
            /\ UNCHANGED <<live, calls, syncVars>>
       ELSE \E ok \in BOOLEAN :
            /\ calls' = Append(calls, Call("CreateEngine", Outcome(ok),
                                           opts.TargetEngineName, <<>>))
            /\ IF AbortsOn(ok)
               THEN /\ Fail(Wrap("failed to create engine",
                              Wrap("failed to create engine", TransportError)))
                    /\ UNCHANGED syncVars
               ELSE /\ result' = Ptr([result[1] EXCEPT !.Created = TRUE])
                    /\ Advance("engine")
                    /\ UNCHANGED err
            /\ live' = IF ok
                       THEN [exists |-> TRUE,
                             engine |-> Ptr(createEngineFromSnapshot(
                                            opts.TargetEngineName, snapshot[1].Engine)),
                             agents |-> <<>>]
                       ELSE live
    /\ UNCHANGED <<otherVars, nextId, existingEngine, existingAgents, currentDiff>>

\* target present and UpdateExisting: patchEngineFromSnapshot
PatchEngine ==
    /\ pc = "engine"
    /\ existingEngine # Nil
    /\ opts.UpdateExisting
    /\ LET updateMask == patchEngineFromSnapshot(existingEngine[1], snapshot[1].Engine)
       IN  \E ok \in (IF Len(updateMask) = 0 THEN {TRUE} ELSE BOOLEAN) :
            /\ calls' = IF Len(updateMask) = 0 THEN calls
                        ELSE Append(calls, Call("PatchEngine", Outcome(ok),
                                                opts.TargetEngineName, updateMask))
            /\ IF AbortsOn(ok)
               THEN /\ Fail(Wrap("failed to patch engine",
                              Wrap("failed to patch engine", TransportError)))
                    /\ UNCHANGED syncVars
               ELSE /\ result' = Ptr([result[1] EXCEPT !.EnginePatched = TRUE])
                    /\ Advance("engine")
                    /\ UNCHANGED err
            /\ live' = IF ok /\ Len(updateMask) > 0
                       THEN [live EXCEPT !.engine =
                                Ptr(PatchedEngine(live.engine[1], snapshot[1].Engine,
                                                  updateMask))]
                       ELSE live
    /\ UNCHANGED <<otherVars, nextId, existingEngine, existingAgents, currentDiff>>

\* target present and not UpdateExisting: the engine is left alone
KeepEngine ==
    /\ pc = "engine"
    /\ existingEngine # Nil
    /\ ~opts.UpdateExisting
    /\ Advance("engine")
    /\ UNCHANGED <<otherVars, live, nextId, existingEngine, existingAgents, currentDiff,
                   result, err, calls>>

\* applyFeatureSnapshot, and the feature changes of the result
ApplyFeatures ==
    /\ pc = "features"
    /\ LET desired == snapshot[1].Engine.Features
           issued == applyFeatureSnapshot(desired)
       IN  \E ok \in (IF issued THEN BOOLEAN ELSE {TRUE}) :
            /\ calls' = IF issued
                        THEN Append(calls, Call("UpdateEngineFeatures", Outcome(ok),
                                                opts.TargetEngineName, <<>>))
                        ELSE calls
            /\ IF AbortsOn(ok)
               THEN /\ Fail(Wrap("failed to apply feature snapshot", TransportError))
                    /\ UNCHANGED syncVars
               ELSE /\ result' = Ptr([result[1] EXCEPT !.FeatureChanges =
                            diffFeatures(existingEngineFeatures(existingEngine), desired)])
                    /\ Advance("features")
                    /\ UNCHANGED err
            /\ live' = IF ok /\ issued /\ live.exists
                       THEN [live EXCEPT !.engine = Ptr([live.engine[1] EXCEPT
                                !.Features = UpdateEngineFeatures(@, desired)])]
                       ELSE live
            /\ snapshot' = IF ok /\ issued /\ live.exists
                           THEN Ptr([snapshot[1] EXCEPT !.Engine.Features =
                                    DesiredAfterUpdate(live.engine[1].Features, desired)])
                           ELSE snapshot
    /\ UNCHANGED <<callerVars, nextId, existingEngine, existingAgents, currentDiff>>

\* syncAgentsWithSnapshot, one pass of the loop over desiredMap
SyncDesired ==
    /\ pc = "agents"
    /\ \E key \in desiredLeft :
        LET desiredAgent == AgentMap(snapshot[1].Agents)[key]
            currentMap == AgentMap(existingAgents)
        IN
        /\ desiredLeft' = desiredLeft \ {key}
        /\ UNCHANGED currentLeft
        /\ IF key \in DOMAIN currentMap
           THEN LET existing == currentMap[key]
                    updateMask == diffAgentsFields(existing, desiredAgent)
                IN  IF Len(updateMask) > 0
                    THEN \E ok \in BOOLEAN :
                        /\ calls' = Append(calls, Call("UpdateAgent", Outcome(ok),
                                                       existing[1].Name, updateMask))
                        /\ IF AbortsOn(ok)
                           THEN Fail(Wrap("failed to sync agents",
                                     Wrap("failed to update agent " \o existing[1].Name,
                                          TransportError)))
                                /\ UNCHANGED changes
                           ELSE /\ changes' = Append(changes,
                                        AgentDiff(key, "updated", existing, desiredAgent))
                                /\ UNCHANGED <<pc, result, err>>
                        /\ live' = IF ok
                                   THEN [live EXCEPT !.agents =
                                            UpdateAgent(@, existing[1].Name,
                                                AgentUpdateInput(desiredAgent[1]),
                                                updateMask)]
                                   ELSE live
                        /\ UNCHANGED nextId
                    ELSE UNCHANGED <<calls, changes, pc, result, err, live, nextId>>
           ELSE CASE createAgentFromSnapshot(desiredAgent) = "skip" ->
                        /\ changes' = Append(changes,
                                             AgentDiff(key, "added", Nil, desiredAgent))
                        /\ UNCHANGED <<calls, pc, result, err, live, nextId>>
                  [] createAgentFromSnapshot(desiredAgent) = "invalid" ->
                        /\ Fail(Wrap("failed to sync agents",
                                  "snapshot agent " \o desiredAgent[1].DisplayName
                                  \o " missing dialogflow agent resource"))
                        /\ UNCHANGED <<calls, changes, live, nextId>>
                  [] OTHER ->
                        \E ok \in BOOLEAN :
                        /\ calls' = Append(calls, Call("CreateAgent", Outcome(ok),
                                                       desiredAgent[1].DisplayName, <<>>))
                        /\ IF AbortsOn(ok)
                           THEN Fail(Wrap("failed to sync agents",
                                     Wrap("failed to create agent "
                                            \o desiredAgent[1].DisplayName,
                                          TransportError)))
                                /\ UNCHANGED changes
                           ELSE /\ changes' = Append(changes,
                                        AgentDiff(key, "added", Nil, desiredAgent))
                                /\ UNCHANGED <<pc, result, err>>
                        /\ live' = IF ok
                                   THEN [live EXCEPT !.agents =
                                            CreateAgent(@, NewAgentNames[nextId + 1],
                                                AgentCreateInput(opts.TargetEngineName,
                                                                 desiredAgent[1]))]
                                   ELSE live
                        /\ nextId' = IF ok THEN nextId + 1 ELSE nextId
    /\ UNCHANGED <<otherVars, existingEngine, existingAgents, currentDiff>>

\* syncAgentsWithSnapshot, one pass of the loop over currentMap that finds a
\* key desiredMap lacks
SyncCurrent ==
    /\ pc = "agents"
    /\ desiredLeft = {}
    /\ \E key \in currentLeft :
        LET existing == AgentMap(existingAgents)[key] IN
        /\ currentLeft' = currentLeft \ {key}
        /\ UNCHANGED desiredLeft
        /\ \E ok \in BOOLEAN :
            /\ calls' = Append(calls, Call("DeleteAgent", Outcome(ok),
                                           existing[1].Name, <<>>))
            /\ IF AbortsOn(ok)
               THEN Fail(Wrap("failed to sync agents",
                         Wrap("failed to delete agent " \o existing[1].Name,
                              TransportError)))
                    /\ UNCHANGED changes
               ELSE /\ changes' = Append(changes,
                                         AgentDiff(key, "removed", existing, Nil))
                    /\ UNCHANGED <<pc, result, err>>
            /\ live' = IF ok
                       THEN [live EXCEPT !.agents = DeleteAgent(@, existing[1].Name)]
                       ELSE live
    /\ UNCHANGED <<otherVars, nextId, existingEngine, existingAgents, currentDiff>>

\* syncAgentsWithSnapshot returns its changes
SyncDone ==
    /\ pc = "agents"
    /\ desiredLeft = {}
    /\ currentLeft = {}
    /\ result' = Ptr([result[1] EXCEPT !.AgentChanges = changes])
    /\ Advance("agents")
    /\ UNCHANGED <<otherVars, live, nextId, existingEngine, existingAgents, currentDiff,
                   err, calls>>

Idle ==
    /\ pc = "idle"
    /\ nextId = 0
    /\ existingEngine = Nil
    /\ existingAgents = <<>>
    /\ currentDiff = EmptyDiff
    /\ result = Nil
    /\ err = ""
    /\ calls = <<>>
    /\ desiredLeft = {}
    /\ currentLeft = {}
    /\ changes = <<>>
    /\ engineDiff = Nil
    /\ diffAB = Nil
    /\ diffBA = Nil
    /\ diffAA = Nil
    /\ diffTwice = Nil
    /\ loaded = Nil
    /\ capture = Nil

\* no restore command is running
NoCommand ==
    [stage |-> "none", dryRun |-> FALSE, force |-> FALSE, printed |-> FALSE,
     answer |-> "none", preview |-> Nil, exit |-> ""]

RestoreOptions ==
    [TargetEngineName : {TargetEngineName}, CreateIfMissing : BOOLEAN,
     UpdateExisting : BOOLEAN, DryRun : BOOLEAN]

InitRestore ==
    /\ snapshot \in {Ptr(s) : s \in Snapshots}
    /\ opts \in RestoreOptions
    /\ live \in Lives

\* calls the argument checks reject
InitInvalid ==
    /\ snapshot \in {Nil, Ptr(BaseSnapshot)}
    /\ opts \in [TargetEngineName : {"", TargetEngineName}, CreateIfMissing : BOOLEAN,
                 UpdateExisting : BOOLEAN, DryRun : BOOLEAN]
    /\ snapshot = Nil \/ opts.TargetEngineName = ""
    /\ live \in {NoLive, [exists |-> TRUE,
                          engine |-> Ptr(Engine(TargetEngineName, BaseEngineConfig)),
                          agents |-> <<>>]}

Init ==
    /\ InitRestore \/ InitInvalid
    /\ other = Nil
    /\ cli = NoCommand
    /\ Idle

Next ==
    \/ RestoreInvalid
    \/ GetEngineDetails
    \/ ListAgents
    \/ Preview
    \/ CreateEngine
    \/ PatchEngine
    \/ KeepEngine
    \/ ApplyFeatures
    \/ SyncDesired
    \/ SyncCurrent
    \/ SyncDone

Spec == Init /\ [][Next]_vars

(***************************************************************************)
(* Snapshot against snapshot: DiffSnapshots in both directions, and of a   *)
(* snapshot against itself.                                                *)
(***************************************************************************)
NoOptions ==
    [TargetEngineName |-> "", CreateIfMissing |-> FALSE, UpdateExisting |-> FALSE,
     DryRun |-> TRUE]

\* the platform holds the engine that `other` is a capture of, if it is one
InitDiff ==
    /\ snapshot \in {Ptr(s) : s \in Snapshots}
    /\ other \in {Ptr(s) : s \in OtherSnapshots}
    /\ opts = NoOptions
    /\ cli = NoCommand
    /\ live = IF other[1].Agents \in LiveAgentLists
              THEN [exists |-> TRUE,
                    engine |-> Ptr(Engine(TargetEngineName, other[1].Engine)),
                    agents |-> other[1].Agents]
              ELSE NoLive
    /\ Idle

restoreVars ==
    <<cli, opts, live, nextId, pc, existingEngine, existingAgents, currentDiff, result,
      desiredLeft, currentLeft, changes, loaded, capture>>

\* what DiffSnapshots(a, b) can return, over the orders in which its two
\* range loops may visit the agent maps
DiffOutcomes(a, b) ==
    {DiffSnapshots(a, b, ordB, ordA) :
        ordB \in Orders(AgentKeys(b.Agents)), ordA \in Orders(AgentKeys(a.Agents))}

NoDiffYet ==
    /\ other # Nil
    /\ diffAB = Nil /\ diffBA = Nil /\ diffAA = Nil /\ diffTwice = Nil /\ calls = <<>>

\* DiffSnapshots(snapshot, other) and DiffSnapshots(other, snapshot)
CallDiffSnapshots ==
    /\ NoDiffYet
    /\ \E d \in DiffOutcomes(snapshot[1], other[1]) : diffAB' = Ptr(d)
    /\ \E d \in DiffOutcomes(other[1], snapshot[1]) : diffBA' = Ptr(d)
    /\ UNCHANGED <<snapshot, other, diffAA, diffTwice, engineDiff, err, calls,
                   restoreVars>>

\* DiffSnapshots(snapshot, snapshot)
CallDiffSelf ==
    /\ NoDiffYet
    /\ \E d \in DiffOutcomes(snapshot[1], snapshot[1]) : diffAA' = Ptr(d)
    /\ UNCHANGED <<snapshot, other, diffAB, diffBA, diffTwice, engineDiff, err, calls,
                   restoreVars>>

\* DiffSnapshots(snapshot, other) evaluated twice on the same arguments
CallDiffSnapshotsTwice ==
    /\ NoDiffYet
    /\ LET outcomes == DiffOutcomes(snapshot[1], other[1])
       IN  \E d1 \in outcomes, d2 \in outcomes : diffTwice' = Ptr(<<d1, d2>>)
    /\ UNCHANGED <<snapshot, other, diffAB, diffBA, diffAA, engineDiff, err, calls,
                   restoreVars>>

\* DiffSnapshotWithEngine(snapshot, engineName)
DiffSnapshotWithEngine ==
    /\ NoDiffYet
    /\ \/ /\ live.exists
          /\ calls' = <<Call("GetEngineDetails", "ok", TargetEngineName, <<>>),
                        Call("ListAgents", "ok", TargetEngineName, <<>>)>>
          /\ \E ordB \in Orders(AgentKeys(cloneAgents(live.agents))),
                ordA \in Orders(AgentKeys(snapshot[1].Agents)) :
                engineDiff' = Ptr(DiffSnapshots(snapshot[1],
                                    CurrentSnapshot(live.engine[1], live.agents),
                                    ordB, ordA))
          /\ UNCHANGED err
       \/ /\ calls' = <<Call("GetEngineDetails",
                             IF live.exists THEN "error" ELSE "notfound",
                             TargetEngineName, <<>>)>>
          /\ err' = "failed to get engine details"
          /\ UNCHANGED engineDiff
       \/ /\ live.exists
          /\ calls' = <<Call("GetEngineDetails", "ok", TargetEngineName, <<>>),
                        Call("ListAgents", "error", TargetEngineName, <<>>)>>
          /\ err' = "failed to list agents"
          /\ UNCHANGED engineDiff
    /\ UNCHANGED <<snapshot, other, diffAB, diffBA, diffAA, diffTwice, restoreVars>>

NextDiff ==
    \/ CallDiffSnapshots
    \/ CallDiffSelf
    \/ CallDiffSnapshotsTwice
    \/ DiffSnapshotWithEngine

SpecDiff == InitDiff /\ [][NextDiff]_vars

(***************************************************************************)
(* The restore command (NewEnginesSnapshotRestoreCommand): a dry-run call  *)
(* of RestoreEngineSnapshot, the preview printed, the gates, and the call  *)
(* that applies.  calls is the log of the whole command.                   *)
(***************************************************************************)
\* if proceed, err := promptForConfirmation(...); err != nil || !proceed
PromptAnswers == {"yes", "no", "error"}

\* the answer never read as a refusal
ProceedsUnlessRefused(force, answer) == force \/ answer # "no"

\* --force, or the operator answered yes
Proceeds(force, answer) == force \/ answer = "yes"

\* the snapshot files and the targets the command is run on: the base or
\* the drifted configuration, with one agent at most
CommandSnapshots ==
    {EngineSnapshot(BaseMetadata, e, l) :
        e \in {BaseEngineConfig, DriftedEngineConfig},
        l \in {<<>>} \cup {<<a>> : a \in DesiredAgents}}

CommandLives ==
    {NoLive}
    \cup {[exists |-> TRUE, engine |-> Ptr(Engine(TargetEngineName, e)), agents |-> l] :
            e \in {BaseEngineConfig, DriftedEngineConfig},
            l \in {<<>>} \cup {<<a>> : a \in LiveAgents}}

InitCommand ==
    /\ snapshot \in {Ptr(s) : s \in CommandSnapshots}
    /\ other = Nil
    /\ live \in CommandLives
    /\ opts \in {o \in RestoreOptions : o.DryRun}
    /\ cli \in {[NoCommand EXCEPT !.stage = "preview", !.dryRun = d, !.force = f] :
                    d \in BOOLEAN, f \in BOOLEAN}
    /\ Idle

\* the command ends without applying
Exit(reason, printed, answer) ==
    /\ cli' = [cli EXCEPT !.stage = "exit", !.exit = reason, !.printed = printed,
                          !.answer = answer,
                          !.preview = IF err = "" THEN Ptr(currentDiff) ELSE Nil]
    /\ UNCHANGED <<opts, pc, existingEngine, existingAgents, currentDiff, result, err,
                   syncVars>>

\* from the return of the preview call to the start of the applying call
CommandGate ==
    /\ cli.stage = "preview"
    /\ pc = "done"
    /\ IF err # ""
       THEN Exit("preview failed", FALSE, "none")
       ELSE \E printOk \in BOOLEAN :
            IF ~printOk THEN Exit("output failed", FALSE, "none")
            ELSE IF cli.dryRun THEN Exit("dry run complete", TRUE, "none")
            ELSE IF IsEmpty(currentDiff) THEN Exit("no changes detected", TRUE, "none")
            ELSE \E answer \in (IF cli.force THEN {"none"} ELSE PromptAnswers) :
                 IF ~Proceeds(cli.force, answer)
                 THEN Exit(IF answer = "error" THEN "prompt failed"
                           ELSE "restore cancelled", TRUE, answer)
                 ELSE /\ cli' = [cli EXCEPT !.stage = "apply", !.printed = TRUE,
                                            !.answer = answer,
                                            !.preview = Ptr(currentDiff)]
                      /\ opts' = [opts EXCEPT !.DryRun = FALSE]
                      /\ pc' = "idle"
                      /\ existingEngine' = Nil
                      /\ existingAgents' = <<>>
                      /\ currentDiff' = EmptyDiff
                      /\ result' = Nil
                      /\ err' = ""
                      /\ UNCHANGED syncVars
    /\ UNCHANGED <<snapshot, other, live, nextId, calls, engineDiff, diffAB, diffBA,
                   diffAA, diffTwice, loaded, capture>>

\* the applying call has returned: the result is printed or the error returned
CommandReturn ==
    /\ cli.stage = "apply"
    /\ pc = "done"
    /\ cli' = [cli EXCEPT !.stage = "exit",
                          !.exit = IF err = "" THEN "restored" ELSE "restore failed"]
    /\ UNCHANGED <<snapshot, other, opts, live, nextId, pc, existingEngine,
                   existingAgents, currentDiff, result, err, calls, syncVars,
                   engineDiff, diffAB, diffBA, diffAA, diffTwice, loaded, capture>>

NextCommand ==
    \/ GetEngineDetails
    \/ ListAgents
    \/ Preview
    \/ CreateEngine
    \/ PatchEngine
    \/ KeepEngine
    \/ ApplyFeatures
    \/ SyncDesired
    \/ SyncCurrent
    \/ SyncDone
    \/ CommandGate
    \/ CommandReturn

SpecCommand == InitCommand /\ [][NextCommand]_vars

(***************************************************************************)
(* Snapshot files: MarshalJSONBytes (encoding/json over the struct tags)   *)
(* and LoadEngineSnapshot.  A JSON value carries its kind; an object is a  *)
(* function on the members that were written.                              *)
(***************************************************************************)
JString(s) == [j |-> "string", v |-> s]

JNumber(s) == [j |-> "number", v |-> s]

JNull == [j |-> "null", v |-> ""]

JArray(xs) == [j |-> "array", v |-> xs]

\* one member of a struct: left out when tagged omitempty and empty
Member(key, value, omitempty, empty) ==
    [key |-> key, value |-> value, omit |-> omitempty /\ empty]

JObject(members) ==
    LET kept == SelectSeq(members, LAMBDA m : ~m.omit)
    IN  [j |-> "object",
         v |-> [k \in {kept[i].key : i \in DOMAIN kept} |->
                    kept[CHOOSE i \in DOMAIN kept : kept[i].key = k].value]]

\* a string field tagged omitempty
OptionalString(key, s) == Member(key, JString(s), TRUE, s = "")

marshalStrings(xs) == JArray([i \in DOMAIN xs |-> JString(xs[i])])

marshalStringMap(m) ==
    [j |-> "object", v |-> [k \in MapKeys(m) |-> JString(m.kv[k])]]

\* map[string]interface{}: a Go string is written as a string, a Go number
\* as a number
marshalInterfaceMap(m) ==
    [j |-> "object",
     v |-> [k \in MapKeys(m) |->
                IF m.kv[k].t = "string" THEN JString(m.kv[k].v) ELSE JNumber(m.kv[k].v)]]

marshalSearchConfig(p) ==
    JObject(<<Member("searchTier", JString(p[1].SearchTier), FALSE, FALSE),
              Member("searchAddOns", marshalStrings(p[1].SearchAddOns), FALSE, FALSE)>>)

marshalAgent(agent) ==
    IF agent = Nil THEN JNull
    ELSE LET a == agent[1]
         IN  JObject(<<
                OptionalString("name", a.Name),
                OptionalString("displayName", a.DisplayName),
                OptionalString("description", a.Description),
                Member("icon",
                       IF a.Icon = Nil THEN JNull
                       ELSE JObject(<<OptionalString("uri", a.Icon[1].URI),
                                      OptionalString("content", a.Icon[1].Content)>>),
                       TRUE, a.Icon = Nil),
                Member("dialogflowAgentDefinition",
                       IF a.DialogflowAgentDefinition = Nil THEN JNull
                       ELSE JObject(<<OptionalString("dialogflowAgent",
                                                     a.DialogflowAgentDefinition[1])>>),
                       TRUE, a.DialogflowAgentDefinition = Nil),
                OptionalString("reasoningEngine", a.ReasoningEngine)>>)

\* json.MarshalIndent(s, "", "  ")
MarshalJSONBytes(s) ==
    JObject(<<
        Member("metadata",
               JObject(<<
                   Member("version", JString(s.Metadata.Version), FALSE, FALSE),
                   Member("originalEngineName", JString(s.Metadata.OriginalEngineName),
                          FALSE, FALSE),
                   Member("originalEngineId", JString(s.Metadata.OriginalEngineID),
                          FALSE, FALSE),
                   OptionalString("displayName", s.Metadata.DisplayName),
                   OptionalString("description", s.Metadata.Description),
                   OptionalString("notes", s.Metadata.Notes)>>),
               FALSE, FALSE),
        Member("engine",
               JObject(<<
                   Member("displayName", JString(s.Engine.DisplayName), FALSE, FALSE),
                   Member("solutionType", JString(s.Engine.SolutionType), FALSE, FALSE),
                   Member("industryVertical", JString(s.Engine.IndustryVertical),
                          FALSE, FALSE),
                   Member("appType", JString(s.Engine.AppType), FALSE, FALSE),
                   Member("dataStoreIds", marshalStrings(s.Engine.DataStoreIds),
                          TRUE, Len(s.Engine.DataStoreIds) = 0),
                   Member("commonConfig", marshalInterfaceMap(s.Engine.CommonConfig),
                          TRUE, MapLen(s.Engine.CommonConfig) = 0),
                   Member("features", marshalStringMap(s.Engine.Features),
                          TRUE, MapLen(s.Engine.Features) = 0),
                   Member("searchConfig",
                          IF s.Engine.SearchConfig = Nil THEN JNull
                          ELSE marshalSearchConfig(s.Engine.SearchConfig),
                          TRUE, s.Engine.SearchConfig = Nil)>>),
               FALSE, FALSE),
        Member("agents",
               JArray([i \in DOMAIN s.Agents |-> marshalAgent(s.Agents[i])]),
               TRUE, Len(s.Agents) = 0)>>)

\* json.Unmarshal into the zero value: a member that is absent leaves the
\* field at its zero value
Has(obj, key) == key \in DOMAIN obj.v

StringAt(obj, key) == IF Has(obj, key) THEN obj.v[key].v ELSE ""

StringsAt(obj, key) ==
    IF Has(obj, key) THEN [i \in DOMAIN obj.v[key].v |-> obj.v[key].v[i].v] ELSE <<>>

StringMapAt(obj, key) ==
    IF Has(obj, key)
    THEN MakeMap([k \in DOMAIN obj.v[key].v |-> obj.v[key].v[k].v])
    ELSE NilMap

\* into map[string]interface{}: a string stays a string, a number becomes a
\* float64
InterfaceMapAt(obj, key) ==
    IF Has(obj, key)
    THEN MakeMap([k \in DOMAIN obj.v[key].v |->
                    IF obj.v[key].v[k].j = "string"
                    THEN StringValue(obj.v[key].v[k].v)
                    ELSE NumberValue(obj.v[key].v[k].v)])
    ELSE NilMap

unmarshalSearchConfig(obj) ==
    SearchEngineConfig(StringAt(obj, "searchTier"), StringsAt(obj, "searchAddOns"))

unmarshalAgent(value) ==
    IF value.j = "null" THEN Nil
    ELSE Ptr(Agent(
            StringAt(value, "name"),
            StringAt(value, "displayName"),
            StringAt(value, "description"),
            IF Has(value, "icon")
            THEN AgentIcon(StringAt(value.v["icon"], "uri"),
                           StringAt(value.v["icon"], "content"))
            ELSE Nil,
            IF Has(value, "dialogflowAgentDefinition")
            THEN Ptr(StringAt(value.v["dialogflowAgentDefinition"], "dialogflowAgent"))
            ELSE Nil,
            StringAt(value, "reasoningEngine")))

\* the snapshot LoadEngineSnapshot returns for the bytes of an encoded
\* snapshot (json.Unmarshal does not fail on them)
LoadEngineSnapshot(data) ==
    LET m == data.v["metadata"]
        e == data.v["engine"]
    IN  EngineSnapshot(
            [Version            |-> StringAt(m, "version"),
             OriginalEngineName |-> StringAt(m, "originalEngineName"),
             OriginalEngineID   |-> StringAt(m, "originalEngineId"),
             DisplayName        |-> StringAt(m, "displayName"),
             Description        |-> StringAt(m, "description"),
             Notes              |-> StringAt(m, "notes")],
            [DisplayName      |-> StringAt(e, "displayName"),
             SolutionType     |-> StringAt(e, "solutionType"),
             IndustryVertical |-> StringAt(e, "industryVertical"),
             AppType          |-> StringAt(e, "appType"),
             DataStoreIds     |-> StringsAt(e, "dataStoreIds"),
             CommonConfig     |-> InterfaceMapAt(e, "commonConfig"),
             Features         |-> StringMapAt(e, "features"),
             SearchConfig     |-> IF Has(e, "searchConfig")
                                  THEN unmarshalSearchConfig(e.v["searchConfig"])
                                  ELSE Nil],
            IF Has(data, "agents")
            THEN [i \in DOMAIN data.v["agents"].v |->
                    unmarshalAgent(data.v["agents"].v[i])]
            ELSE <<>>)

fileVars ==
    <<snapshot, other, opts, live, nextId, pc, existingEngine, existingAgents,
      currentDiff, result, err, calls, syncVars, engineDiff, diffAB, diffBA, diffAA,
      diffTwice, cli>>

\* the snapshot is written to a file and the file is loaded
LoadMarshalled ==
    /\ loaded = Nil
    /\ capture = Nil
    /\ loaded' = Ptr(LoadEngineSnapshot(MarshalJSONBytes(snapshot[1])))
    /\ UNCHANGED <<fileVars, capture>>

(***************************************************************************)
(* CreateEngineSnapshot with the objects in memory.  heap maps a cell      *)
(* <<owner, field>> to the value stored there: a cell is a slice's backing *)
(* array, a map, or the target of a pointer; a reference is Nil or         *)
(* Ptr(cell).  The engine and the agents the client returned own the cells *)
(* of SourceOwners; what the snapshot references it may own or share.      *)
(***************************************************************************)
AgentOwners == <<"agents[0]", "agents[1]", "agents[2]">>

SnapshotAgentOwners == <<"snapshot.Agents[0]", "snapshot.Agents[1]", "snapshot.Agents[2]">>

SourceOwners == {"engine"} \cup Range(AgentOwners)

\* the passthrough map of an agent (labels stands for all of them)
LabelMaps == {NilMap, MakeMap("team" :> "a")}

Cell(owner, field) == <<owner, field>>

\* one cell holding value, or none when the Go value is nil
CellOf(owner, field, isnil, value) ==
    IF isnil THEN <<>> ELSE Cell(owner, field) :> value

RefTo(owner, field, isnil) == IF isnil THEN Nil ELSE Ptr(Cell(owner, field))

\* the struct of an agent: its strings, and references to what it points to
AgentStruct(owner, a, labels) ==
    [Name |-> a.Name, DisplayName |-> a.DisplayName, Description |-> a.Description,
     ReasoningEngine |-> a.ReasoningEngine,
     Icon |-> RefTo(owner, "Icon", a.Icon = Nil),
     Definition |-> RefTo(owner, "Definition", a.DialogflowAgentDefinition = Nil),
     Labels |-> RefTo(owner, "Labels", labels.isnil)]

AgentCells(owner, a, labels) ==
    (Cell(owner, "struct") :> AgentStruct(owner, a, labels))
    @@ CellOf(owner, "Icon", a.Icon = Nil, IF a.Icon = Nil THEN Nil ELSE a.Icon[1])
    @@ CellOf(owner, "Definition", a.DialogflowAgentDefinition = Nil,
              DialogflowOf(a))
    @@ CellOf(owner, "Labels", labels.isnil, labels.kv)

RECURSIVE AgentsCells(_, _, _)
AgentsCells(agents, labels, i) ==
    IF i > Len(agents) THEN <<>>
    ELSE AgentCells(AgentOwners[i], agents[i][1], labels[i])
         @@ AgentsCells(agents, labels, i + 1)

\* what GetEngineDetails and ListAgents returned, in memory
SourceHeap(engine, agents, labels) ==
    (Cell("engine", "DataStoreIds") :> engine.DataStoreIds)
    @@ CellOf("engine", "CommonConfig", engine.CommonConfig.isnil, engine.CommonConfig.kv)
    @@ CellOf("engine", "Features", engine.Features.isnil, engine.Features.kv)
    @@ CellOf("engine", "SearchEngineConfig", engine.SearchEngineConfig = Nil,
              IF engine.SearchEngineConfig = Nil THEN Nil
              ELSE engine.SearchEngineConfig[1])
    @@ AgentsCells(agents, labels, 1)

\* copy := *agent, then a new icon and a new definition; the maps of the
\* struct are the maps of the source
ClonedAgentCells(heap, i) ==
    LET src == heap[Cell(AgentOwners[i], "struct")]
        own == SnapshotAgentOwners[i]
    IN  (Cell(own, "struct") :>
            [src EXCEPT !.Icon = RefTo(own, "Icon", src.Icon = Nil),
                        !.Definition = RefTo(own, "Definition", src.Definition = Nil)])
        @@ CellOf(own, "Icon", src.Icon = Nil,
                  IF src.Icon = Nil THEN Nil ELSE heap[src.Icon[1]])
        @@ CellOf(own, "Definition", src.Definition = Nil,
                  IF src.Definition = Nil THEN Nil ELSE heap[src.Definition[1]])

RECURSIVE ClonedAgentsCells(_, _, _)
ClonedAgentsCells(heap, n, i) ==
    IF i > n THEN <<>>
    ELSE ClonedAgentCells(heap, i) @@ ClonedAgentsCells(heap, n, i + 1)

\* the cells CreateEngineSnapshot allocates: append([]string{}, ...),
\* cloneStringInterfaceMap, cloneStringMap, cloneAgents
CapturedCells(heap, n) ==
    (Cell("snapshot", "DataStoreIds") :> heap[Cell("engine", "DataStoreIds")])
    @@ CellOf("snapshot", "CommonConfig", Cell("engine", "CommonConfig") \notin DOMAIN heap,
              IF Cell("engine", "CommonConfig") \in DOMAIN heap
              THEN heap[Cell("engine", "CommonConfig")] ELSE Nil)
    @@ CellOf("snapshot", "Features", Cell("engine", "Features") \notin DOMAIN heap,
              IF Cell("engine", "Features") \in DOMAIN heap
              THEN heap[Cell("engine", "Features")] ELSE Nil)
    @@ ClonedAgentsCells(heap, n, 1)

\* the *EngineSnapshot returned: strings by value, the rest by reference
CapturedSnapshot(engine, heap, n) ==
    [Metadata |->
        [Version |-> snapshotVersion, OriginalEngineName |-> engine.Name,
         OriginalEngineID |-> extractResourceID(engine.Name),
         DisplayName |-> engine.DisplayName, Description |-> "", Notes |-> ""],
     Engine |->
        [DisplayName      |-> engine.DisplayName,
         SolutionType     |-> engine.SolutionType,
         IndustryVertical |-> engine.IndustryVertical,
         AppType          |-> engine.AppType,
         DataStoreIds     |-> Ptr(Cell("snapshot", "DataStoreIds")),
         CommonConfig     |-> RefTo("snapshot", "CommonConfig",
                                    Cell("engine", "CommonConfig") \notin DOMAIN heap),
         Features         |-> RefTo("snapshot", "Features",
                                    Cell("engine", "Features") \notin DOMAIN heap),
         SearchConfig     |-> RefTo("engine", "SearchEngineConfig",
                                    Cell("engine", "SearchEngineConfig") \notin DOMAIN heap)],
     Agents |-> [i \in 1..n |-> Ptr(Cell(SnapshotAgentOwners[i], "struct"))]]

MapAt(heap, ref) == IF ref = Nil THEN NilMap ELSE MakeMap(heap[ref[1]])

\* the snapshot as a value: every reference followed
Resolve(heap, snap) ==
    [Metadata |-> snap.Metadata,
     Engine |->
        [snap.Engine EXCEPT
            !.DataStoreIds = heap[@[1]],
            !.CommonConfig = MapAt(heap, @),
            !.Features = MapAt(heap, @),
            !.SearchConfig = IF @ = Nil THEN Nil ELSE Ptr(heap[@[1]])],
     Agents |->
        [i \in DOMAIN snap.Agents |->
            LET a == heap[snap.Agents[i][1]]
            IN  [a EXCEPT
                    !.Icon = IF @ = Nil THEN Nil ELSE Ptr(heap[@[1]]),
                    !.Definition = IF @ = Nil THEN Nil ELSE Ptr(heap[@[1]]),
                    !.Labels = MapAt(heap, @)]]]

NoCapture(message) ==
    [err |-> message, heap |-> <<>>, snap |-> Nil, taken |-> Nil, mutated |-> Nil]

\* CreateEngineSnapshot(engineName)
CreateEngineSnapshot ==
    /\ capture = Nil
    /\ loaded = Nil
    /\ calls = <<>>
    /\ \/ /\ calls' = <<Call("GetEngineDetails",
                             IF live.exists THEN "error" ELSE "notfound",
                             TargetEngineName, <<>>)>>
          /\ capture' = Ptr(NoCapture("failed to get engine details"))
       \/ /\ live.exists
          /\ calls' = <<Call("GetEngineDetails", "ok", TargetEngineName, <<>>),
                        Call("ListAgents", "error", TargetEngineName, <<>>)>>
          /\ capture' = Ptr(NoCapture("failed to list agents"))
       \/ /\ live.exists
          /\ calls' = <<Call("GetEngineDetails", "ok", TargetEngineName, <<>>),
                        Call("ListAgents", "ok", TargetEngineName, <<>>)>>
          /\ \E labels \in [DOMAIN live.agents -> LabelMaps] :
                LET source == SourceHeap(live.engine[1], live.agents, labels)
                    heap   == source @@ CapturedCells(source, Len(live.agents))
                    snap   == CapturedSnapshot(live.engine[1], source, Len(live.agents))
                IN  capture' = Ptr([err |-> "", heap |-> heap, snap |-> Ptr(snap),
                                    taken |-> Ptr(Resolve(heap, snap)),
                                    mutated |-> Nil])
    /\ UNCHANGED <<snapshot, other, opts, live, nextId, pc, existingEngine,
                   existingAgents, currentDiff, result, err, syncVars, engineDiff,
                   diffAB, diffBA, diffAA, diffTwice, cli, loaded>>

\* a write into the value of a cell
Mutated(field, v) ==
    CASE field = "DataStoreIds" -> IF Len(v) > 0 THEN [v EXCEPT ![1] = "changed"] ELSE v
      [] field = "CommonConfig" -> ("companyName" :> StringValue("changed")) @@ v
      [] field = "Features" -> ("agent-gallery" :> "changed") @@ v
      [] field = "SearchEngineConfig" -> [v EXCEPT !.SearchTier = "changed"]
      [] field = "struct" -> [v EXCEPT !.DisplayName = "changed"]
      [] field = "Icon" -> [v EXCEPT !.URI = "changed"]
      [] field = "Definition" -> "changed"
      [] field = "Labels" -> ("team" :> "changed") @@ v

\* the caller writes into an object the snapshot was captured from
MutateSource ==
    /\ capture # Nil
    /\ capture[1].err = ""
    /\ capture[1].mutated = Nil
    /\ \E c \in {x \in DOMAIN capture[1].heap : x[1] \in SourceOwners} :
          /\ Mutated(c[2], capture[1].heap[c]) # capture[1].heap[c]
          /\ capture' = Ptr([capture[1] EXCEPT
                                !.heap = [@ EXCEPT ![c] = Mutated(c[2], @)],
                                !.mutated = Ptr(c)])
    /\ UNCHANGED <<fileVars, loaded>>

\* a snapshot file to load, or an engine to capture
InitFile ==
    /\ snapshot \in {Ptr(s) : s \in Snapshots}
    /\ live \in Lives
    /\ snapshot = Ptr(BaseSnapshot) \/ live = NoLive
    /\ other = Nil
    /\ opts = NoOptions
    /\ cli = NoCommand
    /\ Idle

NextFile ==
    \/ LoadMarshalled
    \/ CreateEngineSnapshot
    \/ MutateSource

SpecFile == InitFile /\ [][NextFile]_vars

(***************************************************************************)
(* The three operations that are handed a snapshot, together: a restore,   *)
(* or the differ on two snapshot files and on a snapshot and the engine.   *)
(***************************************************************************)
InitCalls == Init \/ InitDiff

NextCalls == Next \/ NextDiff

SpecCalls == InitCalls /\ [][NextCalls]_vars

(***************************************************************************)
(* A restore that creates and updates, run to its end, and then run again  *)
(* on the same snapshot against the platform as the first run left it.     *)
(* cli.stage tells the runs apart; calls is the log of the current run.    *)
(***************************************************************************)
ConvergingOptions ==
    [TargetEngineName |-> TargetEngineName, CreateIfMissing |-> TRUE,
     UpdateExisting |-> TRUE, DryRun |-> FALSE]

InitRerun ==
    /\ snapshot \in {Ptr(s) : s \in Snapshots}
    /\ other = Nil
    /\ opts = ConvergingOptions
    /\ live \in Lives
    /\ cli = [NoCommand EXCEPT !.stage = "first"]
    /\ Idle

\* the first run returned its result: the caller runs the restore again
Rerun ==
    /\ cli.stage = "first"
    /\ pc = "done"
    /\ err = ""
    /\ result # Nil
    /\ cli' = [cli EXCEPT !.stage = "rerun"]
    /\ pc' = "idle"
    /\ existingEngine' = Nil
    /\ existingAgents' = <<>>
    /\ currentDiff' = EmptyDiff
    /\ result' = Nil
    /\ calls' = <<>>
    /\ desiredLeft' = {}
    /\ currentLeft' = {}
    /\ changes' = <<>>
    /\ UNCHANGED <<snapshot, other, opts, live, nextId, err, engineDiff, diffAB, diffBA,
                   diffAA, diffTwice, loaded, capture>>

NextRerun ==
    \/ GetEngineDetails
    \/ ListAgents
    \/ Preview
    \/ CreateEngine
    \/ PatchEngine
    \/ ApplyFeatures
    \/ SyncDesired
    \/ SyncCurrent
    \/ SyncDone
    \/ Rerun

SpecRerun == InitRerun /\ [][NextRerun]_vars

(***************************************************************************)
(* Claims about the differ (specification SpecDiff).                       *)
(***************************************************************************)
\* the entries of xs and ys name the same fields, old and new exchanged
FieldsSwapped(xs, ys) ==
    /\ Len(xs) = Len(ys)
    /\ \A i \in DOMAIN xs : \E j \in DOMAIN ys :
          /\ xs[i].Field = ys[j].Field
          /\ xs[i].Old = ys[j].New
          /\ xs[i].New = ys[j].Old

FeaturesSwapped(xs, ys) ==
    /\ Len(xs) = Len(ys)
    /\ \A i \in DOMAIN xs : \E j \in DOMAIN ys :
          /\ xs[i].Feature = ys[j].Feature
          /\ xs[i].Old = ys[j].New
          /\ xs[i].New = ys[j].Old

SwappedKind(kind) ==
    CASE kind = "added" -> "removed"
      [] kind = "removed" -> "added"
      [] OTHER -> kind

\* every entry of xs has its mirror image in ys
AgentsMirrored(xs, ys) ==
    \A i \in DOMAIN xs : \E j \in DOMAIN ys :
        /\ xs[i].Key = ys[j].Key
        /\ ys[j].ChangeType = SwappedKind(xs[i].ChangeType)
        /\ xs[i].Old = ys[j].New
        /\ xs[i].New = ys[j].Old

\* as AgentsMirrored, for the entries that are not "updated"
AddedRemovedMirrored(xs, ys) ==
    \A i \in DOMAIN xs : xs[i].ChangeType # "updated" =>
        \E j \in DOMAIN ys :
            /\ xs[i].Key = ys[j].Key
            /\ ys[j].ChangeType = SwappedKind(xs[i].ChangeType)
            /\ xs[i].Old = ys[j].New
            /\ xs[i].New = ys[j].Old

\* x and y differ in a field whose two values are both set, or in a field
\* that has no "only when the desired value is non-empty" condition
DifferBothWays(x, y) ==
    \/ x.DisplayName # y.DisplayName
    \/ x.Description # y.Description
    \/ IconURI(x) # IconURI(y)
    \/ IconContent(x) # IconContent(y)
    \/ (x.ReasoningEngine # y.ReasoningEngine
            /\ x.ReasoningEngine # "" /\ y.ReasoningEngine # "")
    \/ (DialogflowOf(x) # DialogflowOf(y)
            /\ DialogflowOf(x) # "" /\ DialogflowOf(y) # "")

\* y sets a reasoning engine or a Dialogflow link that x leaves empty
SetsWhatIsEmpty(x, y) ==
    \/ (x.ReasoningEngine = "" /\ y.ReasoningEngine # "")
    \/ (DialogflowOf(x) = "" /\ DialogflowOf(y) # "")

\* an "updated" entry of xs without a mirror image in ys is one whose agents
\* differ only in a reasoning engine or link that is empty in the old agent
UpdatedMirroredOrOneSided(xs, ys) ==
    \A i \in DOMAIN xs : xs[i].ChangeType = "updated" =>
        \/ \E j \in DOMAIN ys :
              /\ xs[i].Key = ys[j].Key
              /\ ys[j].ChangeType = "updated"
              /\ xs[i].Old = ys[j].New
              /\ xs[i].New = ys[j].Old
        \/ /\ \A j \in DOMAIN ys : ys[j].Key # xs[i].Key
           /\ ~DifferBothWays(xs[i].Old[1], xs[i].New[1])
           /\ SetsWhatIsEmpty(xs[i].Old[1], xs[i].New[1])

\* C5: DiffSnapshots(S, S) is empty in all four categories, for every
\* snapshot S, also one whose agents share a derived key or have the empty key.
C5_Reflexive ==
    diffAA # Nil => IsEmpty(diffAA[1])

C5_Witness ==
    /\ diffAA # Nil
    /\ Len(snapshot[1].Agents) = 2
    /\ snapshot[1].Agents[1] # snapshot[1].Agents[2]
    /\ AgentKeys(snapshot[1].Agents) = {""}

\* C6 as stated: DiffSnapshots(A, B) and DiffSnapshots(B, A) hold the same
\* changed fields, feature keys and agent keys with old and new exchanged
\* (added and removed exchanged); a key "updated" one way is "updated" the other.
C6_Symmetric ==
    (diffAB # Nil /\ diffBA # Nil) =>
        /\ FieldsSwapped(diffAB[1].MetadataChanges, diffBA[1].MetadataChanges)
        /\ FieldsSwapped(diffAB[1].EngineChanges, diffBA[1].EngineChanges)
        /\ FeaturesSwapped(diffAB[1].FeatureChanges, diffBA[1].FeatureChanges)
        /\ AgentsMirrored(diffAB[1].AgentChanges, diffBA[1].AgentChanges)
        /\ AgentsMirrored(diffBA[1].AgentChanges, diffAB[1].AgentChanges)

\* C6 as amended: the same, except that a key "updated" one way may be
\* missing the other way when its two agents differ only in a reasoning
\* engine or Dialogflow link that is empty on one side; it is then reported
\* in the direction whose second snapshot holds the value.
C6_SymmetricButOneSidedUpdates ==
    (diffAB # Nil /\ diffBA # Nil) =>
        /\ FieldsSwapped(diffAB[1].MetadataChanges, diffBA[1].MetadataChanges)
        /\ FieldsSwapped(diffAB[1].EngineChanges, diffBA[1].EngineChanges)
        /\ FeaturesSwapped(diffAB[1].FeatureChanges, diffBA[1].FeatureChanges)
        /\ AddedRemovedMirrored(diffAB[1].AgentChanges, diffBA[1].AgentChanges)
        /\ AddedRemovedMirrored(diffBA[1].AgentChanges, diffAB[1].AgentChanges)
        /\ UpdatedMirroredOrOneSided(diffAB[1].AgentChanges, diffBA[1].AgentChanges)
        /\ UpdatedMirroredOrOneSided(diffBA[1].AgentChanges, diffAB[1].AgentChanges)

C6_Witness ==
    /\ diffAB # Nil
    /\ diffBA # Nil
    /\ \E i \in DOMAIN diffAB[1].AgentChanges :
          /\ diffAB[1].AgentChanges[i].ChangeType = "updated"
          /\ \A j \in DOMAIN diffBA[1].AgentChanges :
                diffBA[1].AgentChanges[j].Key # diffAB[1].AgentChanges[i].Key
    /\ \E i \in DOMAIN diffAB[1].AgentChanges :
          diffAB[1].AgentChanges[i].ChangeType = "added"
    /\ diffAB[1].EngineChanges = <<>>

(***************************************************************************)
(* Claims about RestoreEngineSnapshot (specification Spec).                *)
(***************************************************************************)
IsWrite(c) == c.op \in WriteOps

NoWriteIssued == \A i \in DOMAIN calls : ~IsWrite(calls[i])

Issued(op) == \E i \in DOMAIN calls : calls[i].op = op

Succeeded(op) == \E i \in DOMAIN calls : calls[i].op = op /\ calls[i].outcome = "ok"

\* errors returned before the preview diff is computed
EarlyErrors ==
    {"snapshot is nil", "target engine name is required", "failed to get target engine",
     "engine " \o TargetEngineName \o " not found and create option disabled",
     "failed to list agents for target engine"}

\* currentDiff holds the preview
Previewed ==
    \/ pc \in {"engine", "features", "agents"}
    \/ pc = "done" /\ err \notin EarlyErrors

\* a non-dry-run restore has returned without error
Restored == pc = "done" /\ err = "" /\ ~opts.DryRun /\ Issued("GetEngineDetails")

\* C1: a dry run issues no write call whatever CreateIfMissing and
\* UpdateExisting are; it reads, leaves the platform as it was and returns
\* the preview with a nil result.
C1_DryRunReadsOnly ==
    opts.DryRun =>
        /\ NoWriteIssued
        /\ result = Nil
        /\ nextId = 0
        /\ pc \in {"idle", "listAgents", "preview", "done"}
        /\ existingEngine # Nil => live.exists /\ live.engine = existingEngine
        /\ (pc = "done" /\ err = "" /\ existingEngine # Nil) =>
                live.agents = existingAgents

C1_Witness ==
    /\ opts.DryRun
    /\ opts.CreateIfMissing
    /\ opts.UpdateExisting
    /\ pc = "done"
    /\ err = ""
    /\ existingEngine # Nil
    /\ Len(currentDiff.AgentChanges) = 2
    /\ Len(currentDiff.FeatureChanges) > 0

\* C2: with the target present and an empty preview diff, a non-dry-run
\* restore issues no write call and returns Created = false,
\* EnginePatched = false and no feature or agent changes.
C2_ConvergedRestoreWritesNothing ==
    (Previewed /\ ~opts.DryRun /\ existingEngine # Nil /\ IsEmpty(currentDiff)) =>
        /\ NoWriteIssued
        /\ pc = "done" =>
            /\ err = ""
            /\ result # Nil
            /\ ~result[1].Created
            /\ ~result[1].EnginePatched
            /\ result[1].FeatureChanges = <<>>
            /\ result[1].AgentChanges = <<>>

\* the agent entries of diff d report desired-only keys as "added" with the
\* desired agent and actual-only keys as "removed" with the actual agent
DirectionOfAgents(d, desired, actual) ==
    /\ \A key \in AgentKeys(desired) \ AgentKeys(actual) :
            \E i \in DOMAIN d.AgentChanges :
                d.AgentChanges[i] = AgentDiff(key, "added", Nil, AgentMap(desired)[key])
    /\ \A key \in AgentKeys(actual) \ AgentKeys(desired) :
            \E i \in DOMAIN d.AgentChanges :
                d.AgentChanges[i] = AgentDiff(key, "removed", AgentMap(actual)[key], Nil)

\* C3: DiffSnapshots(desired, actual) reports an agent key of the desired
\* snapshot alone as "added" and a key of the actual side alone as "removed":
\* in the restore preview against an existing target, in
\* DiffSnapshotWithEngine and between two snapshots.
C3_DesiredOnlyIsAdded ==
    /\ (Previewed /\ existingEngine # Nil) =>
            DirectionOfAgents(currentDiff, snapshot[1].Agents, cloneAgents(existingAgents))
    /\ engineDiff # Nil =>
            DirectionOfAgents(engineDiff[1], snapshot[1].Agents, cloneAgents(live.agents))
    /\ diffAB # Nil =>
            DirectionOfAgents(diffAB[1], snapshot[1].Agents, other[1].Agents)

\* C4: after a successful non-dry-run restore the preview's feature and
\* agent changes are the result's: the same entries, with the same change
\* type and the same old and new values.
C4_PreviewEqualsExecuted ==
    Restored =>
        /\ result # Nil
        /\ Range(currentDiff.FeatureChanges) = Range(result[1].FeatureChanges)
        /\ Range(currentDiff.AgentChanges) = Range(result[1].AgentChanges)

\* C7: a missing target (GetEngineDetails returns NotFound) with
\* CreateIfMissing = false ends the call with an error, a nil result and no
\* write call, dry run or not.
C7_MissingTargetWithoutCreateFails ==
    (calls # <<>> /\ calls[1].outcome = "notfound" /\ ~opts.CreateIfMissing) =>
        /\ pc = "done"
        /\ err # ""
        /\ result = Nil
        /\ Len(calls) = 1
        /\ ~live.exists

C7_Witness ==
    /\ calls # <<>>
    /\ calls[1].outcome = "notfound"
    /\ ~opts.CreateIfMissing
    /\ opts.DryRun
    /\ opts.UpdateExisting
    /\ pc = "done"

EngineFields ==
    {"displayName", "solutionType", "industryVertical", "appType", "dataStoreIds",
     "commonConfig", "searchConfig"}

\* every feature change and every agent change of diff d is an addition,
\* and every desired feature that is set and every desired key has one
FeaturesAndAgentsAdded(d) ==
    /\ \A k \in MapKeys(snapshot[1].Engine.Features) :
            MapGet(snapshot[1].Engine.Features, k) # "" =>
                \E i \in DOMAIN d.FeatureChanges :
                    d.FeatureChanges[i] =
                        FeatureDiff(k, "", MapGet(snapshot[1].Engine.Features, k))
    /\ \A i \in DOMAIN d.FeatureChanges : d.FeatureChanges[i].Old = ""
    /\ \A key \in AgentKeys(snapshot[1].Agents) :
            \E i \in DOMAIN d.AgentChanges :
                d.AgentChanges[i] =
                    AgentDiff(key, "added", Nil, AgentMap(snapshot[1].Agents)[key])
    /\ \A i \in DOMAIN d.AgentChanges : d.AgentChanges[i].ChangeType = "added"

WriteStands(j) ==
    CASE calls[j].op = "CreateEngine" ->
            /\ live.exists
            /\ live.engine[1].Name = calls[j].target
            /\ live.engine[1].DisplayName = snapshot[1].Engine.DisplayName
      [] calls[j].op = "PatchEngine" ->
            /\ live.exists
            /\ PatchedEngine(live.engine[1], snapshot[1].Engine, calls[j].mask)
                    = live.engine[1]
      [] calls[j].op = "UpdateEngineFeatures" ->
            /\ live.exists
            /\ \A k \in MapKeys(snapshot[1].Engine.Features) :
                    MapGet(live.engine[1].Features, k)
                        = MapGet(snapshot[1].Engine.Features, k)
      [] calls[j].op = "CreateAgent" ->
            \E n \in DOMAIN live.agents :
                /\ live.agents[n][1].Name \in Range(NewAgentNames)
                /\ live.agents[n][1].DisplayName = calls[j].target
      [] calls[j].op = "UpdateAgent" ->
            \E n \in DOMAIN live.agents :
                /\ live.agents[n][1].Name = calls[j].target
                /\ LET desired ==
                        AgentMap(snapshot[1].Agents)[agentSnapshotKey(
                            CHOOSE a \in Range(existingAgents) :
                                a[1].Name = calls[j].target)]
                   IN  UpdateAgent(live.agents, calls[j].target,
                                   AgentUpdateInput(desired[1]), calls[j].mask)
                            = live.agents
      [] calls[j].op = "DeleteAgent" ->
            \A n \in DOMAIN live.agents : live.agents[n][1].Name # calls[j].target
      [] OTHER -> TRUE

\* C9: a failed write call is the last call of the restore, which returns
\* the error with a nil result; the writes that succeeded before it stand.
C9_FailedWriteEndsRestore ==
    \A i \in DOMAIN calls :
        (IsWrite(calls[i]) /\ calls[i].outcome = "error") =>
            /\ i = Len(calls)
            /\ pc = "done"
            /\ err # ""
            /\ result = Nil
            /\ \A j \in 1..(i - 1) : calls[j].outcome # "error" /\ WriteStands(j)

C9_Witness ==
    /\ Len(calls) >= 5
    /\ calls[Len(calls)].op = "DeleteAgent"
    /\ calls[Len(calls)].outcome = "error"
    /\ Succeeded("PatchEngine")
    /\ Succeeded("UpdateEngineFeatures")
    /\ Succeeded("CreateAgent")

Rank(op) ==
    CASE op \in {"CreateEngine", "PatchEngine"} -> 1
      [] op = "UpdateEngineFeatures" -> 2
      [] op \in {"CreateAgent", "UpdateAgent", "DeleteAgent"} -> 3
      [] OTHER -> 0

\* C10: the write calls come in the order engine create or patch, feature
\* update, agent writes: one engine call at most (a create only for a
\* missing target, a patch only for a present one with UpdateExisting), one
\* feature update at most, the feature update after the engine step is
\* over and every agent write after the feature step is over.
C10_WriteOrder ==
    /\ \A i, j \in DOMAIN calls : i < j => Rank(calls[i].op) <= Rank(calls[j].op)
    /\ \A i, j \in DOMAIN calls :
            (Rank(calls[i].op) = Rank(calls[j].op) /\ Rank(calls[i].op) \in {1, 2})
                => i = j
    /\ Issued("CreateEngine") => existingEngine = Nil
    /\ Issued("PatchEngine") => existingEngine # Nil /\ opts.UpdateExisting
    /\ Issued("UpdateEngineFeatures") =>
            /\ existingEngine = Nil => Succeeded("CreateEngine")
            /\ (/\ existingEngine # Nil
                /\ opts.UpdateExisting
                /\ patchEngineFromSnapshot(existingEngine[1], snapshot[1].Engine) # <<>>)
                    => Succeeded("PatchEngine")
    /\ (\E i \in DOMAIN calls : Rank(calls[i].op) = 3) =>
            /\ existingEngine = Nil => Succeeded("CreateEngine")
            /\ applyFeatureSnapshot(snapshot[1].Engine.Features)
                    => Succeeded("UpdateEngineFeatures")

C10_Witness ==
    /\ pc = "done"
    /\ err = ""
    /\ Succeeded("PatchEngine")
    /\ Succeeded("UpdateEngineFeatures")
    /\ Succeeded("UpdateAgent")
    /\ Succeeded("DeleteAgent")

(***************************************************************************)
(* Claims about agent matching, feature diffs and keys.                    *)
(***************************************************************************)
\* the entries of diff d about agent key k
EntriesOf(d, k) == {i \in DOMAIN d.AgentChanges : d.AgentChanges[i].Key = k}

\* x of the first list and y of the second carry the same Dialogflow link,
\* letter case apart
SameLink(x, y) ==
    /\ x # Nil
    /\ y # Nil
    /\ DialogflowOf(x[1]) # ""
    /\ ToLower(DialogflowOf(x[1])) = ToLower(DialogflowOf(y[1]))

\* every pair of agents of the two lists that share a link is one entity in
\* diff d: at most one entry under the link's key, an "updated" one, present
\* exactly when diffAgentsFields finds a change between the two agents
\* recorded under that key
MatchedByLink(d, first, second) ==
    \A i \in DOMAIN first, j \in DOMAIN second :
        SameLink(first[i], second[j]) =>
            LET k == ToLower(DialogflowOf(first[i][1]))
                old == AgentMap(first)[k]
                new == AgentMap(second)[k]
            IN  /\ agentSnapshotKey(first[i]) = k
                /\ agentSnapshotKey(second[j]) = k
                /\ Cardinality(EntriesOf(d, k)) <= 1
                /\ \A n \in EntriesOf(d, k) :
                        d.AgentChanges[n] = AgentDiff(k, "updated", old, new)
                /\ (EntriesOf(d, k) # {}) <=> (diffAgentsFields(old, new) # <<>>)

\* C11: a desired agent with a Dialogflow link and a live agent with the
\* same link up to letter case, whatever their Name and display name, are
\* one entity: the diff has at most one entry for the link's key, it is
\* "updated" and is there exactly when the compared fields differ; the key
\* is never "added" or "removed".
C11_LinkMatchesAcrossNames ==
    /\ diffAB # Nil => MatchedByLink(diffAB[1], snapshot[1].Agents, other[1].Agents)
    /\ engineDiff # Nil =>
            MatchedByLink(engineDiff[1], snapshot[1].Agents, cloneAgents(live.agents))

C11_Witness ==
    /\ engineDiff # Nil
    /\ \E i \in DOMAIN snapshot[1].Agents, j \in DOMAIN live.agents :
        /\ SameLink(snapshot[1].Agents[i], live.agents[j])
        /\ DialogflowOf(snapshot[1].Agents[i][1]) # DialogflowOf(live.agents[j][1])
        /\ snapshot[1].Agents[i][1].Name # live.agents[j][1].Name
        /\ EntriesOf(engineDiff[1], ToLower(DialogflowOf(live.agents[j][1]))) # {}
    /\ Len(engineDiff[1].AgentChanges) = 2

\* the value of key k in a feature map of the program: "" when k is absent
FeatureValue(m, k) == IF k \in MapKeys(m) THEN m.kv[k] ELSE ""

\* the place of a feature name in ascending string order
NameRank(k) == CHOOSE n \in DOMAIN FeatureNames : FeatureNames[n] = k

\* fc is what C12 says of diffFeatures(a, b)
IsFeatureDiffOf(fc, a, b) ==
    LET union == MapKeys(a) \cup MapKeys(b) IN
    /\ \A k \in union :
        FeatureValue(a, k) # FeatureValue(b, k) =>
            /\ Cardinality({i \in DOMAIN fc : fc[i].Feature = k}) = 1
            /\ \E i \in DOMAIN fc :
                fc[i] = FeatureDiff(k, FeatureValue(a, k), FeatureValue(b, k))
    /\ \A i \in DOMAIN fc :
        /\ fc[i].Feature \in union
        /\ FeatureValue(a, fc[i].Feature) # FeatureValue(b, fc[i].Feature)
    /\ \A i, j \in DOMAIN fc :
        i < j => NameRank(fc[i].Feature) < NameRank(fc[j].Feature)

\* C12: diffFeatures(a, b) has exactly one entry for every key of a or b
\* whose values differ (a missing key counting as ""), none for a key whose
\* values are equal, Old from a and New from b, in ascending key order.
C12_FeatureDiffExact ==
    diffAB # Nil =>
        /\ IsFeatureDiffOf(diffAB[1].FeatureChanges,
                           snapshot[1].Engine.Features, other[1].Engine.Features)
        /\ IsFeatureDiffOf(diffBA[1].FeatureChanges,
                           other[1].Engine.Features, snapshot[1].Engine.Features)

C12_Witness ==
    /\ diffAB # Nil
    /\ Len(diffAB[1].FeatureChanges) = 2
    /\ MapKeys(snapshot[1].Engine.Features) = {"agent-gallery"}
    /\ "prompt-gallery" \in MapKeys(other[1].Engine.Features)

\* every feature change of fc has the live value as Old and the desired
\* value as New
LiveOldDesiredNew(fc, liveFeatures, desiredFeatures) ==
    \A i \in DOMAIN fc :
        /\ fc[i].Old = FeatureValue(liveFeatures, fc[i].Feature)
        /\ fc[i].New = FeatureValue(desiredFeatures, fc[i].Feature)

\* C13: in a comparison of a desired snapshot with a live engine, by
\* DiffSnapshotWithEngine or by the restore preview against an existing
\* target, every feature change has the live engine's value as Old and the
\* desired snapshot's value as New.
C13_FeatureChangeLiveToDesired ==
    /\ (Previewed /\ existingEngine # Nil) =>
            LiveOldDesiredNew(currentDiff.FeatureChanges,
                              existingEngine[1].Features, snapshot[1].Engine.Features)
    /\ engineDiff # Nil =>
            LiveOldDesiredNew(engineDiff[1].FeatureChanges,
                              live.engine[1].Features, snapshot[1].Engine.Features)

\* the strings of the model that are one string up to letter case
FoldClasses ==
    {{"Bot", "bot"}, {"Helper", "helper"}, {"L1", "l1"}, {"Agents/3", "agents/3"}}

SameFold(x, y) == x = y \/ \E c \in FoldClasses : x \in c /\ y \in c

HasUpperCase(x) == x \in {"Bot", "Helper", "L1", "Agents/3"}

\* the field the key is taken from: link, else display name, else Name
SelectedField(agent) ==
    IF agent = Nil THEN ""
    ELSE IF DialogflowOf(agent[1]) # "" THEN DialogflowOf(agent[1])
    ELSE IF agent[1].DisplayName # "" THEN agent[1].DisplayName
    ELSE agent[1].Name

\* the agents that DiffSnapshots(snapshot, other) keyed
KeyedAgents == Range(snapshot[1].Agents) \cup Range(other[1].Agents)

\* C14: agentSnapshotKey is the selected field (link, else display name,
\* else Name) in lower case, "" for a nil agent or one with none of the
\* three; agents whose selected fields differ in letter case only have the
\* same key, and the keys of the diff's entries are these keys.
C14_KeyPrecedenceAndCase ==
    diffAB # Nil =>
        /\ \A x \in KeyedAgents :
            /\ SameFold(agentSnapshotKey(x), SelectedField(x))
            /\ ~HasUpperCase(agentSnapshotKey(x))
            /\ SelectedField(x) = "" <=> agentSnapshotKey(x) = ""
        /\ \A x, y \in KeyedAgents :
            SameFold(SelectedField(x), SelectedField(y))
                => agentSnapshotKey(x) = agentSnapshotKey(y)
        /\ \A i \in DOMAIN diffAB[1].AgentChanges :
            LET e == diffAB[1].AgentChanges[i] IN
            /\ e.Old # Nil => SameFold(e.Key, SelectedField(e.Old))
            /\ e.New # Nil => SameFold(e.Key, SelectedField(e.New))
            /\ ~HasUpperCase(e.Key)

C14_Witness ==
    /\ diffAB # Nil
    /\ other[1].Agents \in NameKeyedLists
    /\ Len(other[1].Agents) = 2
    /\ \E x \in Range(snapshot[1].Agents) : x # Nil /\ DialogflowOf(x[1]) = "L1"
    /\ \E x \in Range(snapshot[1].Agents) : x = Nil
    /\ EntriesOf(diffAB[1], "agents/3") # {}
    /\ EntriesOf(diffAB[1], "l1") # {}

\* C15: two evaluations of DiffSnapshots on the same snapshots give the
\* same four lists, entry for entry and in the same order.
C15_DifferDeterministic ==
    diffTwice # Nil => diffTwice[1][1] = diffTwice[1][2]

(***************************************************************************)
(* Claims about the restore command (specification SpecCommand).           *)
(***************************************************************************)
\* C16: the restore command calls RestoreEngineSnapshot without DryRun, and
\* so issues a write call, only after its dry-run call has succeeded, the
\* preview has been printed, the preview is not empty, --dry-run is not set
\* and --force is set or the operator answered yes; on every other path it
\* issues no write call.
C16_ApplyIsGated ==
    /\ (~opts.DryRun \/ ~NoWriteIssued \/ cli.stage = "apply") =>
        /\ cli.preview # Nil
        /\ ~IsEmpty(cli.preview[1])
        /\ cli.printed
        /\ ~cli.dryRun
        /\ cli.force \/ cli.answer = "yes"
        /\ \A i \in DOMAIN calls :
            IsWrite(calls[i]) =>
                Cardinality({j \in 1..i : calls[j].op = "GetEngineDetails"}) = 2
    /\ (cli.stage = "exit" /\ cli.exit \notin {"restored", "restore failed"}) =>
        NoWriteIssued /\ opts.DryRun

C16_Witness ==
    /\ cli.stage = "exit"
    /\ cli.exit = "restored"
    /\ ~cli.force
    /\ cli.answer = "yes"
    /\ Succeeded("PatchEngine")
    /\ Succeeded("DeleteAgent")

(***************************************************************************)
(* Claims about snapshot files and capture (specification SpecFile).       *)
(***************************************************************************)
\* C17: loading the bytes MarshalJSONBytes wrote for a snapshot succeeds and
\* gives a snapshot equal to it field for field: metadata, engine
\* configuration with data-store IDs, common-config map, feature map and
\* search config, and the agent list.
C17_RoundTrip ==
    loaded # Nil => loaded = snapshot

\* a map that is empty and not nil
EmptyMap(m) == ~m.isnil /\ MapLen(m) = 0

\* the round trip changes nothing but an empty map, which it loads as nil
RoundTripButEmptyMaps ==
    loaded # Nil =>
        /\ loaded[1].Metadata = snapshot[1].Metadata
        /\ loaded[1].Agents = snapshot[1].Agents
        /\ \A f \in DOMAIN snapshot[1].Engine :
              \/ loaded[1].Engine[f] = snapshot[1].Engine[f]
              \/ /\ f \in {"CommonConfig", "Features"}
                 /\ EmptyMap(snapshot[1].Engine[f])
                 /\ loaded[1].Engine[f] = NilMap

\* C18: every mutable field of a captured snapshot is a copy: whatever the
\* caller writes afterwards into the engine or the agents it was captured
\* from, the snapshot is what it was when CreateEngineSnapshot returned.
C18_CaptureIsolated ==
    (capture # Nil /\ capture[1].err = "")
        => Ptr(Resolve(capture[1].heap, capture[1].snap[1])) = capture[1].taken

\* only a write through the search-config pointer or into a map of an agent
\* reaches the snapshot
SharedWithSource ==
    (capture # Nil /\ capture[1].err = ""
        /\ Ptr(Resolve(capture[1].heap, capture[1].snap[1])) # capture[1].taken)
        => /\ capture[1].mutated # Nil
           /\ capture[1].mutated[1][2] \in {"SearchEngineConfig", "Labels"}

(***************************************************************************)
(* Claims about the errors of a restore (specification Spec).              *)
(***************************************************************************)
\* part occurs in text
Contains(text, part) ==
    \E i \in 1..(Len(text) - Len(part) + 1) : SubSeq(text, i, i + Len(part) - 1) = part

\* the words that tell the kind of a write
OperationWords(op) ==
    CASE op = "CreateEngine" -> "create engine"
      [] op = "PatchEngine" -> "patch engine"
      [] op = "UpdateEngineFeatures" -> "feature"
      [] op = "CreateAgent" -> "create agent"
      [] op = "UpdateAgent" -> "update agent"
      [] op = "DeleteAgent" -> "delete agent"

\* the restore has returned the error of a write that failed
ApplyStepFailed ==
    /\ pc = "done"
    /\ err # ""
    /\ calls # <<>>
    /\ IsWrite(calls[Len(calls)])
    /\ calls[Len(calls)].outcome = "error"

\* the error tells the kind of the call and names what it was applied to
Identifies(text, call) ==
    /\ Contains(text, OperationWords(call.op))
    /\ call.target # ""
    /\ Contains(text, call.target) \/ Contains(text, extractResourceID(call.target))

\* C19: the error RestoreEngineSnapshot returns for a failed apply step
\* tells the kind of operation (engine create, engine patch, feature update,
\* agent create, agent update, agent delete) and names the resource the
\* operation was applied to.
C19_ErrorNamesOperationAndResource ==
    ApplyStepFailed => Identifies(err, calls[Len(calls)])

\* the errors of the agent writes do both; those of the engine writes tell
\* the kind only
AgentErrorsIdentify ==
    ApplyStepFailed =>
        LET call == calls[Len(calls)]
        IN  /\ Contains(err, OperationWords(call.op))
            /\ call.op \in {"CreateAgent", "UpdateAgent", "DeleteAgent"}
                  => Identifies(err, call)
            /\ call.op \in {"CreateEngine", "PatchEngine"}
                  => ~Contains(err, extractResourceID(call.target))

(***************************************************************************)
(* Claims about the inputs (specification SpecCalls).                      *)
(***************************************************************************)
\* C20: DiffSnapshots, DiffSnapshotWithEngine and RestoreEngineSnapshot leave
\* the snapshots they are handed as they were, whether the operation
\* succeeds, fails or is a dry run: no step of any of them changes one.
C20_InputsUnchanged ==
    [][snapshot' = snapshot /\ other' = other]_vars

\* a restore that merged the snapshot's flags into an engine holding a flag
\* the snapshot lacks, and wrote an agent
C20_Witness ==
    /\ Restored
    /\ Succeeded("UpdateEngineFeatures")
    /\ Succeeded("CreateAgent")
    /\ "model-selector" \in MapKeys(live.engine[1].Features)
    /\ "model-selector" \notin MapKeys(snapshot[1].Engine.Features)

(***************************************************************************)
(* Claims about a restore run again (specification SpecRerun).             *)
(***************************************************************************)
\* C21: after a restore with CreateIfMissing and UpdateExisting whose every
\* write succeeded, the same restore run again on the resulting platform
\* previews an empty diff (no metadata, engine, feature or agent change) and
\* applies nothing.
C21_RerunConverges ==
    (cli.stage = "rerun" /\ Previewed) =>
        /\ IsEmpty(currentDiff)
        /\ NoWriteIssued

\* the second run previews an engine change although the first run patched:
\* the solution type, common config, and a field the snapshot leaves empty
\* are outside the patch
RerunMayDiffer ==
    (cli.stage = "rerun" /\ Previewed /\ Len(currentDiff.EngineChanges) > 0) =>
        \A i \in DOMAIN currentDiff.EngineChanges :
            \/ currentDiff.EngineChanges[i].Field \in {"solutionType", "commonConfig"}
            \/ /\ currentDiff.EngineChanges[i].Field
                    \in {"displayName", "industryVertical", "appType"}
               /\ currentDiff.EngineChanges[i].Old = ""
            \/ /\ currentDiff.EngineChanges[i].Field = "searchConfig"
               /\ currentDiff.EngineChanges[i].Old = Nil

(***************************************************************************)
(* Claims about the apply steps of a restore (specification Spec).         *)
(***************************************************************************)
CallsOf(op) == SelectSeq(calls, LAMBDA c : c.op = op)

\* the patchable fields in which the desired configuration differs from the
\* engine that was read
DifferingFields(cfg, current) ==
       (IF cfg.DisplayName # current.DisplayName THEN {"displayName"} ELSE {})
    \cup (IF cfg.IndustryVertical # current.IndustryVertical
          THEN {"industryVertical"} ELSE {})
    \cup (IF cfg.AppType # current.AppType THEN {"appType"} ELSE {})
    \cup (IF cfg.DataStoreIds # current.DataStoreIds THEN {"dataStoreIds"} ELSE {})
    \cup (IF cfg.SearchConfig # current.SearchEngineConfig
          THEN {"searchEngineConfig"} ELSE {})

\* the engine step of an updating restore has been taken
PatchStepTaken ==
    /\ existingEngine # Nil
    /\ opts.UpdateExisting
    /\ ~opts.DryRun
    /\ \/ pc \in {"features", "agents"}
       \/ pc = "done" /\ Previewed /\ err # ("engine " \o opts.TargetEngineName \o " not found")

\* C22: with the target present and UpdateExisting set, the mask of the
\* patch call holds a field among display name, industry vertical, app type,
\* data-store IDs and search config exactly when the desired value differs
\* from the live one, and the patch call is issued with that mask (none is
\* needed when no field differs).
C22_PatchMaskIsTheDifference ==
    PatchStepTaken =>
        LET fields == DifferingFields(snapshot[1].Engine, existingEngine[1])
            patches == CallsOf("PatchEngine")
        IN  /\ Len(patches) <= 1
            /\ fields # {} => Len(patches) = 1
            /\ Len(patches) = 1 => Range(patches[1].mask) = fields

\* what the mask leaves out of the difference is a field the snapshot holds
\* empty, and it holds nothing else
PatchMaskLeavesOutEmpty ==
    PatchStepTaken =>
        LET cfg == snapshot[1].Engine
            fields == DifferingFields(cfg, existingEngine[1])
            patches == CallsOf("PatchEngine")
            mask == IF Len(patches) = 1 THEN Range(patches[1].mask) ELSE {}
        IN  /\ Len(patches) <= 1
            /\ mask \subseteq fields
            /\ \A f \in fields \ mask :
                  \/ f = "displayName" /\ cfg.DisplayName = ""
                  \/ f = "industryVertical" /\ cfg.IndustryVertical = ""
                  \/ f = "appType" /\ cfg.AppType = ""
                  \/ f = "searchEngineConfig" /\ cfg.SearchConfig = Nil

\* a non-dry-run restore has taken its feature step
FeatureStepTaken ==
    \/ pc = "agents"
    \/ /\ pc = "done"
       /\ \/ result # Nil
          \/ Contains(err, "failed to apply feature snapshot")
          \/ Contains(err, "failed to sync agents")

\* C23: every non-dry-run restore that gets past the engine step issues
\* exactly one feature-update call, on the target, whatever the live flags
\* and whatever the desired map holds, an absent or empty map included.
C23_OneFeatureUpdateAlways ==
    FeatureStepTaken =>
        /\ Len(CallsOf("UpdateEngineFeatures")) = 1
        /\ CallsOf("UpdateEngineFeatures")[1].target = opts.TargetEngineName

\* one call, on the target, unless the desired map is nil, and then none
FeatureUpdateUnlessNil ==
    FeatureStepTaken =>
        IF snapshot[1].Engine.Features.isnil
        THEN Len(CallsOf("UpdateEngineFeatures")) = 0
        ELSE /\ Len(CallsOf("UpdateEngineFeatures")) = 1
             /\ CallsOf("UpdateEngineFeatures")[1].target = opts.TargetEngineName

\* the target's feature map as the restore read it, before any write: empty
\* when the target was missing
PreApplyFeatures ==
    IF existingEngine = Nil THEN MakeMap(<<>>) ELSE existingEngine[1].Features

\* C24: Result.FeatureChanges of a successful non-dry-run restore is the
\* feature diff between the target's feature map as read before any write
\* (empty when the target was missing) and the desired map: one entry per
\* key whose values differ, Old the pre-apply live value, New the desired.
C24_ResultFeatureChanges ==
    (pc = "done" /\ result # Nil) =>
        /\ IsFeatureDiffOf(result[1].FeatureChanges, PreApplyFeatures,
                           snapshot[1].Engine.Features)
        /\ LiveOldDesiredNew(result[1].FeatureChanges, PreApplyFeatures,
                             snapshot[1].Engine.Features)

\* a restore onto an engine whose flags differ from the snapshot's in two
\* keys, one of them unknown to the snapshot
C24_Witness ==
    /\ pc = "done"
    /\ result # Nil
    /\ existingEngine # Nil
    /\ Len(result[1].FeatureChanges) = 2
    /\ "model-selector" \in MapKeys(existingEngine[1].Features)
    /\ "model-selector" \notin MapKeys(snapshot[1].Engine.Features)

\* the agent writes of the restore
AgentWrites == SelectSeq(calls, LAMBDA c : c.op \in {"CreateAgent", "UpdateAgent", "DeleteAgent"})

\* keys of both lists whose agents need an update
KeysToUpdate ==
    {k \in AgentKeys(snapshot[1].Agents) \cap AgentKeys(existingAgents) :
        Len(diffAgentsFields(AgentMap(existingAgents)[k],
                             AgentMap(snapshot[1].Agents)[k])) > 0}

KeysToCreate == AgentKeys(snapshot[1].Agents) \ AgentKeys(existingAgents)

KeysToDelete == AgentKeys(existingAgents) \ AgentKeys(snapshot[1].Agents)

\* the pairs <<key, change type>> of a list of agent changes
KeyedTypes(cs) == {<<cs[i].Key, cs[i].ChangeType>> : i \in DOMAIN cs}

\* the calls the keys of `created` ask for have been issued, one each, and
\* no other agent write
AgentCallsFor(created) ==
    /\ Len(CallsOf("CreateAgent")) = Cardinality(created)
    /\ \A k \in created :
          \E i \in DOMAIN calls :
             /\ calls[i].op = "CreateAgent"
             /\ calls[i].target = AgentMap(snapshot[1].Agents)[k][1].DisplayName
    /\ Len(CallsOf("UpdateAgent")) = Cardinality(KeysToUpdate)
    /\ \A k \in KeysToUpdate :
          \E i \in DOMAIN calls :
             /\ calls[i].op = "UpdateAgent"
             /\ calls[i].target = AgentMap(existingAgents)[k][1].Name
             /\ calls[i].mask = diffAgentsFields(AgentMap(existingAgents)[k],
                                                 AgentMap(snapshot[1].Agents)[k])
    /\ Len(CallsOf("DeleteAgent")) = Cardinality(KeysToDelete)
    /\ \A k \in KeysToDelete :
          \E i \in DOMAIN calls :
             /\ calls[i].op = "DeleteAgent"
             /\ calls[i].target = AgentMap(existingAgents)[k][1].Name

\* C25: a non-dry-run restore that completes has issued exactly one create
\* call for each desired key the target lacks, one update call with the
\* agent's field mask for each key of both whose mask is not empty, one
\* delete call for each live key the snapshot lacks, and no other agent
\* write; Result.AgentChanges holds one entry per issued call, of the
\* matching change type.
C25_OneCallPerKey ==
    (pc = "done" /\ result # Nil) =>
        /\ \A k \in KeysToCreate : AgentMap(snapshot[1].Agents)[k] # Nil
        /\ AgentCallsFor(KeysToCreate)
        /\ Len(result[1].AgentChanges) = Len(AgentWrites)
        /\ KeyedTypes(result[1].AgentChanges)
             = {<<k, "added">> : k \in KeysToCreate}
               \cup {<<k, "updated">> : k \in KeysToUpdate}
               \cup {<<k, "removed">> : k \in KeysToDelete}

\* a nil entry of the snapshot's list is reported as added and never created;
\* for every other key the calls and the entries are as C25 has them
CallsButForNilEntry ==
    (pc = "done" /\ result # Nil) =>
        LET created == {k \in KeysToCreate : AgentMap(snapshot[1].Agents)[k] # Nil}
        IN  /\ AgentCallsFor(created)
            /\ Len(result[1].AgentChanges)
                 = Len(AgentWrites) + Cardinality(KeysToCreate \ created)
            /\ KeyedTypes(result[1].AgentChanges)
                 = {<<k, "added">> : k \in KeysToCreate}
                   \cup {<<k, "updated">> : k \in KeysToUpdate}
                   \cup {<<k, "removed">> : k \in KeysToDelete}

MaskFields ==
    {"displayName", "description", "reasoningEngine",
     "dialogflowAgentDefinition.dialogflowAgent", "icon"}

\* whether field f belongs to the mask of live agent c and desired agent d
InMask(f, c, d) ==
    CASE f = "displayName" -> c.DisplayName # d.DisplayName
      [] f = "description" -> c.Description # d.Description
      [] f = "reasoningEngine" ->
            c.ReasoningEngine # d.ReasoningEngine /\ d.ReasoningEngine # ""
      [] f = "dialogflowAgentDefinition.dialogflowAgent" ->
            DialogflowOf(c) # DialogflowOf(d) /\ DialogflowOf(d) # ""
      [] f = "icon" -> ~(IconURI(c) = IconURI(d) /\ IconContent(c) = IconContent(d))

\* keys under which the target and the snapshot both hold an agent
SharedKeys ==
    {k \in AgentKeys(snapshot[1].Agents) \cap AgentKeys(existingAgents) :
        AgentMap(snapshot[1].Agents)[k] # Nil}

UpdatesOf(name) == SelectSeq(calls, LAMBDA c : c.op = "UpdateAgent" /\ c.target = name)

\* C26: for a live and a desired agent of the same key, the field mask
\* holds displayName and description when they differ, reasoningEngine and
\* the Dialogflow link when they differ and the desired value is not empty,
\* and icon, once, when the icon URI or content differs; the agent is
\* updated, and reported as "updated", exactly when the mask is not empty.
C26_AgentFieldMask ==
    (pc = "done" /\ result # Nil) =>
        \A k \in SharedKeys :
            LET c == AgentMap(existingAgents)[k][1]
                d == AgentMap(snapshot[1].Agents)[k][1]
                fields == {f \in MaskFields : InMask(f, c, d)}
                updates == UpdatesOf(c.Name)
            IN  /\ Len(updates) = (IF fields = {} THEN 0 ELSE 1)
                /\ Len(updates) = 1 =>
                      /\ Range(updates[1].mask) = fields
                      /\ Len(updates[1].mask) = Cardinality(fields)
                /\ <<k, "updated">> \in KeyedTypes(result[1].AgentChanges)
                      <=> fields # {}

\* one agent updated in its link and icon, another left alone although its
\* reasoning engine differs, the snapshot's being empty
C26_Witness ==
    /\ pc = "done"
    /\ result # Nil
    /\ \E i \in DOMAIN calls :
          /\ calls[i].op = "UpdateAgent"
          /\ calls[i].outcome = "ok"
          /\ Range(calls[i].mask) = {"dialogflowAgentDefinition.dialogflowAgent", "icon"}
    /\ \E k \in SharedKeys :
          /\ AgentMap(snapshot[1].Agents)[k][1].ReasoningEngine = ""
          /\ AgentMap(existingAgents)[k][1].ReasoningEngine # ""
          /\ <<k, "updated">> \notin KeyedTypes(result[1].AgentChanges)

(***************************************************************************)
(* Claims about the agent changes of every operation (specification        *)
(* SpecCalls).                                                             *)
(***************************************************************************)
\* no two entries of cs have the same key
OnePerKey(cs) == \A i, j \in DOMAIN cs : cs[i].Key = cs[j].Key => i = j

\* some key is the key of two entries of list
Collides(list) ==
    \E i, j \in DOMAIN list :
        i # j /\ agentSnapshotKey(list[i]) = agentSnapshotKey(list[j])

\* C27: whatever the two agent lists, several agents of one key or of the
\* empty key included, the agent changes of diffAgents and of
\* syncAgentsWithSnapshot hold at most one entry per key, so no key is
\* reported under two change types: agents of one key count as one.
C27_OneEntryPerKey ==
    /\ OnePerKey(currentDiff.AgentChanges)
    /\ OnePerKey(changes)
    /\ result # Nil => OnePerKey(result[1].AgentChanges)
    /\ engineDiff # Nil => OnePerKey(engineDiff[1].AgentChanges)
    /\ diffAB # Nil => OnePerKey(diffAB[1].AgentChanges)
    /\ diffBA # Nil => OnePerKey(diffBA[1].AgentChanges)
    /\ diffAA # Nil => OnePerKey(diffAA[1].AgentChanges)

\* two agents of one key in the second snapshot, reported as one addition
C27_Witness ==
    /\ diffAB # Nil
    /\ Len(other[1].Agents) = 2
    /\ Collides(other[1].Agents)
    /\ Len(diffAB[1].AgentChanges) = 1
    /\ diffAB[1].AgentChanges[1].ChangeType = "added"

(***************************************************************************)
(* Claims about the field differs (specification SpecDiff).                *)
(***************************************************************************)
MetadataFieldOrder == <<"displayName", "description", "notes">>

EngineFieldOrder ==
    <<"displayName", "solutionType", "industryVertical", "appType", "dataStoreIds",
      "commonConfig", "searchConfig">>

MetadataValue(m, f) ==
    CASE f = "displayName" -> m.DisplayName
      [] f = "description" -> m.Description
      [] f = "notes" -> m.Notes

EngineValue(e, f) ==
    CASE f = "displayName" -> e.DisplayName
      [] f = "solutionType" -> e.SolutionType
      [] f = "industryVertical" -> e.IndustryVertical
      [] f = "appType" -> e.AppType
      [] f = "dataStoreIds" -> e.DataStoreIds
      [] f = "commonConfig" -> e.CommonConfig
      [] f = "searchConfig" -> e.SearchConfig

\* the entries of a map, with the type of every value
Entries(m) == m.kv

\* the entries of a map as fmt.Sprintf("%v") prints their values
PrintedEntries(m) == [k \in MapKeys(m) |-> Sprintf(m.kv[k])]

\* fds has one entry, with both values, for each field of order that
\* `differs` tells apart, none for another, in the order of `order`
IsFieldDiffOf(fds, order, differs(_), old(_), new(_)) ==
    /\ \A n \in DOMAIN order :
          Cardinality({i \in DOMAIN fds : fds[i].Field = order[n]})
             = (IF differs(order[n]) THEN 1 ELSE 0)
    /\ \A i \in DOMAIN fds :
          /\ fds[i].Field \in Range(order)
          /\ fds[i] = FieldDiff(fds[i].Field, old(fds[i].Field), new(fds[i].Field))
    /\ \A i, j \in DOMAIN fds :
          i < j => \E m, n \in DOMAIN order :
                      m < n /\ order[m] = fds[i].Field /\ order[n] = fds[j].Field

\* the two engine configurations differ in field f: values as they are, a
\* map by its entries with the types of their values
EngineFieldDiffers(a, b, f) ==
    IF f = "commonConfig" THEN Entries(a.CommonConfig) # Entries(b.CommonConfig)
    ELSE EngineValue(a, f) # EngineValue(b, f)

\* the same, a map by its entries as printed
EngineFieldPrintsDiffer(a, b, f) ==
    IF f = "commonConfig"
    THEN PrintedEntries(a.CommonConfig) # PrintedEntries(b.CommonConfig)
    ELSE EngineValue(a, f) # EngineValue(b, f)

MetadataDiffExact(d, a, b) ==
    IsFieldDiffOf(d.MetadataChanges, MetadataFieldOrder,
                  LAMBDA f : MetadataValue(a.Metadata, f) # MetadataValue(b.Metadata, f),
                  LAMBDA f : MetadataValue(a.Metadata, f),
                  LAMBDA f : MetadataValue(b.Metadata, f))

\* C28: diffMetadata and diffEngineConfig emit a FieldDiff for a tracked
\* field exactly when the two values differ, one per field at most, in a
\* fixed order of the fields: strings by value, the data-store IDs as an
\* ordered sequence, the common-config map and the search config by their
\* structure, so that two maps whose values differ in any way, the type
\* included, give a commonConfig change.
C28_FieldDiffsExact ==
    diffAB # Nil =>
        /\ MetadataDiffExact(diffAB[1], snapshot[1], other[1])
        /\ IsFieldDiffOf(diffAB[1].EngineChanges, EngineFieldOrder,
                LAMBDA f : EngineFieldDiffers(snapshot[1].Engine, other[1].Engine, f),
                LAMBDA f : EngineValue(snapshot[1].Engine, f),
                LAMBDA f : EngineValue(other[1].Engine, f))

\* the field differs are exact but for the common-config map, which they
\* compare by the printed form of its values
FieldDiffsUpToPrinting ==
    diffAB # Nil =>
        /\ MetadataDiffExact(diffAB[1], snapshot[1], other[1])
        /\ IsFieldDiffOf(diffAB[1].EngineChanges, EngineFieldOrder,
                LAMBDA f : EngineFieldPrintsDiffer(snapshot[1].Engine, other[1].Engine, f),
                LAMBDA f : EngineValue(snapshot[1].Engine, f),
                LAMBDA f : EngineValue(other[1].Engine, f))

(***************************************************************************)
(* Claims about the options and arguments of a restore (specification      *)
(* Spec).                                                                  *)
(***************************************************************************)
\* a non-dry-run restore found its target and is not to update it
KeepsEngine ==
    /\ existingEngine # Nil
    /\ ~opts.UpdateExisting
    /\ ~opts.DryRun
    /\ Previewed

\* C29: with the target present and UpdateExisting unset, a non-dry-run
\* restore issues no engine create or patch call and returns Created = false
\* and EnginePatched = false; the feature update and the agent create,
\* update and delete calls are issued all the same: UpdateExisting governs
\* the engine patch only.
C29_UpdateExistingGovernsPatchOnly ==
    KeepsEngine =>
        /\ ~Issued("CreateEngine")
        /\ ~Issued("PatchEngine")
        /\ result # Nil => ~result[1].Created /\ ~result[1].EnginePatched
        /\ (pc = "done" /\ result # Nil) =>
              /\ Len(CallsOf("UpdateEngineFeatures"))
                    = (IF applyFeatureSnapshot(snapshot[1].Engine.Features) THEN 1 ELSE 0)
              /\ AgentCallsFor({k \in KeysToCreate : AgentMap(snapshot[1].Agents)[k] # Nil})

\* a restore that kept an engine whose configuration differs from the
\* snapshot's, updated its flags, and created and deleted an agent
C29_Witness ==
    /\ KeepsEngine
    /\ pc = "done"
    /\ result # Nil
    /\ existingEngine[1].DisplayName # snapshot[1].Engine.DisplayName
    /\ Succeeded("UpdateEngineFeatures")
    /\ Succeeded("CreateAgent")
    /\ Succeeded("DeleteAgent")

\* the restore was called with a nil snapshot or an empty target name
InvalidArguments == snapshot = Nil \/ opts.TargetEngineName = ""

\* C30: RestoreEngineSnapshot called with a nil snapshot or an empty
\* TargetEngineName returns an error, a nil Result and an empty diff, and
\* issues no external call, neither a read nor a write.
C30_InvalidArgumentsRejected ==
    InvalidArguments =>
        /\ calls = <<>>
        /\ result = Nil
        /\ currentDiff = EmptyDiff
        /\ pc = "done" =>
              err = (IF snapshot = Nil THEN "snapshot is nil"
                     ELSE "target engine name is required")

\* a call with a snapshot and no target name has returned
C30_Witness ==
    /\ pc = "done"
    /\ snapshot # Nil
    /\ opts.TargetEngineName = ""
    /\ err # ""

\* a call with a nil snapshot has returned
NilSnapshotRejected ==
    /\ pc = "done"
    /\ snapshot = Nil
    /\ err = "snapshot is nil"


====
